---- MODULE Spec2Model ----
(***************************************************************************)
(* A model of the two 6502 cores of lib6502:                               *)
(*   - the clock-driven core  Cpu      (lib.rs, addressing.rs,             *)
(*     instructions.rs), whose status is a packed byte, and                *)
(*   - the step-driven core   CPU<B>   (cpu.rs, registers.rs,              *)
(*     addressing_modes.rs), whose status is a struct of booleans.         *)
(* Handlers are operators from a CPU record to a CPU record, composed in   *)
(* the order of the statements of the source.  The bus is the RAM of the   *)
(* TestBus of the test modules: a byte per address, 0 where never written. *)
(***************************************************************************)
EXTENDS Integers, Sequences, FiniteSets, TLC

VARIABLES
  cpu,      \* the CPU object (either core) together with its bus
  pre,      \* the CPU object as it was before the last operation
  op,       \* the last operation called on the CPU object
  booted,   \* reset() has been called since construction
  nsig,     \* number of reset()/irq()/nmi() calls or mode resolutions so far
  ninstr,   \* number of instructions fetched so far
  trail,    \* what the last two calls other than idle ticks started from
  arg,      \* the argument of the last direct call, or the function that panicked
  ret       \* the value that call returned

vars == <<cpu, pre, op, booted, nsig, ninstr, trail, arg, ret>>

-----------------------------------------------------------------------------
(* Bounds of the model *)

MaxSignals == 1
MaxInstr == 2
MaxResolve == 1

-----------------------------------------------------------------------------
(* Fixed-width integers *)

U8 == 2 ^ 8
U16 == 2 ^ 16

Pow2(k) == 2 ^ k

Bit(v, k) == (v \div Pow2(k)) % 2

BitOr(v, w) ==
  LET f[k \in 0..16] ==
        IF k = 16 THEN 0
        ELSE (IF Bit(v, k) = 1 \/ Bit(w, k) = 1 THEN Pow2(k) ELSE 0) + f[k + 1]
  IN f[0]

BitAnd(v, w) ==
  LET f[k \in 0..16] ==
        IF k = 16 THEN 0
        ELSE (IF Bit(v, k) = 1 /\ Bit(w, k) = 1 THEN Pow2(k) ELSE 0) + f[k + 1]
  IN f[0]

BitXor(v, w) ==
  LET f[k \in 0..16] ==
        IF k = 16 THEN 0
        ELSE (IF Bit(v, k) # Bit(w, k) THEN Pow2(k) ELSE 0) + f[k + 1]
  IN f[0]

\* !m on a u8
BitNot8(m) == 255 - m

hi8(w) == (w \div 256) % 256
lo8(w) == w % 256
word(hi, lo) == hi * 256 + lo

wrapping_add8(v, n) == (v + n) % U8
wrapping_sub8(v, n) == (v + U8 - n) % U8
wrapping_add16(v, n) == (v + n) % U16

-----------------------------------------------------------------------------
(* The bus: TestBus, a RAM of 64K bytes, all 0 at construction *)

bus_read(mem, address) == IF address \in DOMAIN mem THEN mem[address] ELSE 0

bus_write(mem, address, value) ==
  [k \in DOMAIN mem \cup {address} |-> IF k = address THEN value ELSE mem[k]]

-----------------------------------------------------------------------------
(* lib.rs: the clock-driven core Cpu *)

Carry == 1
Zero == 2
InterruptDisable == 4
Decimal == 8
Break == 16
Unused == 32
Overflow == 64
Negative == 128

RESET_VECTOR == 65532
IRQ_VECTOR == 65534
NMI_VECTOR == 65530

Cpu_new(bus) ==
  [core |-> "Cpu", a |-> 0, x |-> 0, y |-> 0, sp |-> 0, pc |-> 0, status |-> 0,
   cycles |-> 0, addr_abs |-> 0, addr_rel |-> 0, addr_mode |-> "None",
   opcode |-> 0, fetched_data |-> 0, bus |-> bus, variant |-> "CMOS",
   enable_illegal_opcodes |-> FALSE]

read(c, address) == bus_read(c.bus, address)

\* release arithmetic: address + 1 wraps (see read_u16_overflows)
read_u16(c, address) ==
  LET lo == read(c, address)
      hi == read(c, wrapping_add16(address, 1))
  IN word(hi, lo)

read_u16_overflows(address) == address = U16 - 1

write(c, address, value) == [c EXCEPT !.bus = bus_write(@, address, value)]

set_flag(c, flag, value) ==
  [c EXCEPT !.status = IF value THEN BitOr(@, flag) ELSE BitAnd(@, BitNot8(flag))]

get_flag(c, flag) == BitAnd(c.status, flag) # 0

increment_sp(c) == [c EXCEPT !.sp = wrapping_add8(@, 1)]

decrement_sp(c) == [c EXCEPT !.sp = wrapping_sub8(@, 1)]

push(c, value) == decrement_sp(write(c, 256 + c.sp, value))

\* push_word storing the low byte first
push_word_low_first(c, value) ==
  push(push(c, lo8(value)), hi8(value))

push_word(c, value) == push(push(c, hi8(value)), lo8(value))

\* pop reading the cell SP points at before SP is incremented
pop_before_increment(c) ==
  [cpu |-> increment_sp(c), value |-> read(c, 256 + c.sp)]

\* pop: the CPU after the pop and the byte popped
pop(c) ==
  LET c1 == increment_sp(c)
  IN [cpu |-> c1, value |-> read(c1, 256 + c1.sp)]

pop_word(c) ==
  LET p1 == pop(c)
      p2 == pop(p1.cpu)
  IN [cpu |-> p2.cpu, value |-> word(p2.value, p1.value)]

Cpu_reset(c) ==
  [c EXCEPT !.a = 0, !.x = 0, !.y = 0, !.sp = 253,
            !.pc = read_u16(c, RESET_VECTOR),
            !.status = BitOr(BitOr(0, Unused), InterruptDisable),
            !.cycles = 8]

\* the penalty is 2 when the old PC and addr are in different pages, else 1
branch(c, addr) ==
  LET old_pc == c.pc
      c1 == [c EXCEPT !.pc = addr]
      page_crossed == BitAnd(old_pc, 65280) # BitAnd(addr, 65280)
  IN [cpu |-> c1, value |-> IF page_crossed THEN 2 ELSE 1]

do_interrupt(c, vector) ==
  LET c1 == push_word(c, c.pc)
      c2 == set_flag(c1, Break, FALSE)
      c3 == set_flag(c2, Unused, TRUE)
      c4 == set_flag(c3, Break, TRUE)
      c5 == set_flag(c4, InterruptDisable, TRUE)
      c6 == push(c5, c5.status)
      c7 == set_flag(c6, InterruptDisable, FALSE)
  IN [c7 EXCEPT !.pc = read_u16(c7, vector), !.cycles = 7]

\* irq() without the test of the InterruptDisable flag
Cpu_irq_unmasked(c) == do_interrupt(c, IRQ_VECTOR)

Cpu_irq(c) ==
  IF ~get_flag(c, InterruptDisable) THEN do_interrupt(c, IRQ_VECTOR) ELSE c

Cpu_nmi(c) == do_interrupt(c, NMI_VECTOR)

-----------------------------------------------------------------------------
(* addressing.rs: AddressingMode::execute of the clock-driven core.         *)
(* The result is the CPU after the mode ran and the value returned.         *)

Ret(c, v) == [cpu |-> c, ret |-> v]

AbsoluteModes == {"Absolute", "AbsoluteX", "AbsoluteY", "Indirect"}

execute(mode, c) ==
  CASE mode = "None" -> Ret(c, FALSE)
    [] mode = "Absolute" ->
         LET address == read_u16(c, c.pc)
         IN Ret([c EXCEPT !.addr_abs = address, !.pc = wrapping_add16(@, 2)], FALSE)
    [] mode = "AbsoluteX" ->
         LET address == read_u16(c, c.pc)
             ea == wrapping_add16(address, c.x)
         IN Ret([c EXCEPT !.addr_abs = ea, !.pc = wrapping_add16(@, 2)],
                (ea \div 256) # (address \div 256))
    [] mode = "AbsoluteY" ->
         LET address == read_u16(c, c.pc)
             ea == wrapping_add16(address, c.y)
         IN Ret([c EXCEPT !.addr_abs = ea, !.pc = wrapping_add16(@, 2)],
                (ea \div 256) # (address \div 256))
    [] mode = "Immediate" ->
         Ret([c EXCEPT !.addr_abs = c.pc, !.pc = wrapping_add16(@, 1)], FALSE)
    [] mode = "Implied" ->
         Ret([c EXCEPT !.fetched_data = c.a], FALSE)
    [] mode = "Indirect" ->
         LET addr_lo == read(c, c.pc)
             addr_hi == read(c, wrapping_add16(c.pc, 1))
             addr == word(addr_hi, addr_lo)
             target == IF addr_lo = 255
                       THEN word(read(c, (addr \div 256) * 256), read(c, addr))
                       ELSE word(read(c, wrapping_add16(addr, 1)), read(c, addr))
         IN Ret([c EXCEPT !.addr_abs = target, !.pc = wrapping_add16(@, 2)], FALSE)
    [] mode = "IndexedIndirect" ->
         LET temp == read(c, c.pc)
             lo == read(c, temp + c.x)
             hi == read(c, temp + c.x + 1)
         IN Ret([c EXCEPT !.addr_abs = word(hi, lo), !.pc = wrapping_add16(@, 1)], FALSE)
    [] mode = "IndirectIndexed" ->
         LET temp == read(c, c.pc)
             lo == read(c, temp)
             hi == read(c, temp + 1)
             ea == word(hi, lo)
         IN Ret([c EXCEPT !.addr_abs = ea, !.pc = wrapping_add16(@, 1)],
                ((ea \div 256) * 256) # hi * 256)
    [] mode = "Relative" ->
         LET rel == read(c, c.pc)
         IN Ret([c EXCEPT !.addr_rel = IF BitAnd(rel, 128) > 0 THEN BitOr(rel, 65280) ELSE rel,
                          !.pc = wrapping_add16(@, 1)], FALSE)
    [] mode = "ZeroPage" ->
         Ret([c EXCEPT !.addr_abs = BitAnd(read(c, c.pc), 255),
                       !.pc = wrapping_add16(@, 1)], FALSE)
    [] mode = "ZeroPageX" ->
         Ret([c EXCEPT !.addr_abs = BitAnd(read(c, c.pc) + c.x, 255),
                       !.pc = wrapping_add16(@, 1)], FALSE)
    [] mode = "ZeroPageY" ->
         Ret([c EXCEPT !.addr_abs = BitAnd(read(c, c.pc) + c.y, 255),
                       !.pc = wrapping_add16(@, 1)], FALSE)

\* A u16 addition of the mode overflows: a panic when the build checks overflow.
execute_overflows(mode, c) ==
  CASE mode \in {"None", "Implied"} -> FALSE
    [] mode = "Absolute" -> c.pc + 2 >= U16
    [] mode = "AbsoluteX" -> c.pc + 2 >= U16 \/ read_u16(c, c.pc) + c.x >= U16
    [] mode = "AbsoluteY" -> c.pc + 2 >= U16 \/ read_u16(c, c.pc) + c.y >= U16
    [] mode = "Indirect" -> c.pc + 2 >= U16
    [] OTHER -> c.pc + 1 >= U16

execute_addr_mode(c, mode) ==
  LET r == execute(mode, [c EXCEPT !.addr_mode = mode])
  IN Ret(r.cpu, IF r.ret THEN 1 ELSE 0)

-----------------------------------------------------------------------------
(* instructions.rs: the opcode table and the handlers of the clock-driven    *)
(* core.  A handler yields the CPU after it ran and the extra cycles it      *)
(* returns.                                                                  *)

\* one entry per opcode byte: <<function, mode, cycles, illegal>>
INSTRUCTION_LIST ==
  <<
    <<"brk", "Immediate", 7, FALSE>>, <<"ora", "IndexedIndirect", 6, FALSE>>,
    <<"kil", "Implied", 2, TRUE>>, <<"slo", "IndexedIndirect", 8, TRUE>>,
    <<"nop", "ZeroPage", 3, FALSE>>, <<"ora", "ZeroPage", 3, FALSE>>,
    <<"asl", "ZeroPage", 5, FALSE>>, <<"slo", "ZeroPage", 5, TRUE>>,
    <<"php", "Implied", 3, FALSE>>, <<"ora", "Immediate", 2, FALSE>>,
    <<"asl", "Implied", 2, FALSE>>, <<"anc", "Immediate", 2, TRUE>>,
    <<"nop", "Absolute", 4, FALSE>>, <<"ora", "Absolute", 4, FALSE>>,
    <<"asl", "Absolute", 6, FALSE>>, <<"slo", "Absolute", 6, TRUE>>,
    <<"bpl", "Relative", 2, FALSE>>, <<"ora", "IndirectIndexed", 5, FALSE>>,
    <<"kil", "Implied", 2, TRUE>>, <<"slo", "IndirectIndexed", 8, TRUE>>,
    <<"nop", "ZeroPageX", 4, FALSE>>, <<"ora", "ZeroPageX", 4, FALSE>>,
    <<"asl", "ZeroPageX", 6, FALSE>>, <<"slo", "ZeroPageX", 6, TRUE>>,
    <<"clc", "Implied", 2, FALSE>>, <<"ora", "AbsoluteY", 4, FALSE>>,
    <<"nop", "Implied", 2, FALSE>>, <<"slo", "AbsoluteY", 7, TRUE>>,
    <<"nop", "AbsoluteX", 4, FALSE>>, <<"ora", "AbsoluteX", 4, FALSE>>,
    <<"asl", "AbsoluteX", 7, FALSE>>, <<"slo", "AbsoluteX", 7, TRUE>>,
    <<"jsr", "Absolute", 6, FALSE>>, <<"and", "IndexedIndirect", 6, FALSE>>,
    <<"kil", "Implied", 2, TRUE>>, <<"rla", "IndexedIndirect", 8, TRUE>>,
    <<"bit", "ZeroPage", 3, FALSE>>, <<"and", "ZeroPage", 3, FALSE>>,
    <<"rol", "ZeroPage", 5, FALSE>>, <<"rla", "ZeroPage", 5, TRUE>>,
    <<"plp", "Implied", 4, FALSE>>, <<"and", "Immediate", 2, FALSE>>,
    <<"rol", "Implied", 2, FALSE>>, <<"anc", "Immediate", 2, TRUE>>,
    <<"bit", "Absolute", 4, FALSE>>, <<"and", "Absolute", 4, FALSE>>,
    <<"rol", "Absolute", 6, FALSE>>, <<"rla", "Absolute", 6, TRUE>>,
    <<"bmi", "Relative", 2, FALSE>>, <<"and", "IndirectIndexed", 5, FALSE>>,
    <<"kil", "Implied", 2, TRUE>>, <<"rla", "IndirectIndexed", 8, TRUE>>,
    <<"nop", "ZeroPageX", 4, FALSE>>, <<"and", "ZeroPageX", 4, FALSE>>,
    <<"rol", "ZeroPageX", 6, FALSE>>, <<"rla", "ZeroPageX", 6, TRUE>>,
    <<"sec", "Implied", 2, FALSE>>, <<"and", "AbsoluteY", 4, FALSE>>,
    <<"nop", "Implied", 2, FALSE>>, <<"rla", "AbsoluteY", 7, TRUE>>,
    <<"nop", "AbsoluteX", 4, FALSE>>, <<"and", "AbsoluteX", 4, FALSE>>,
    <<"rol", "AbsoluteX", 7, FALSE>>, <<"rla", "AbsoluteX", 7, TRUE>>,
    <<"rti", "Implied", 6, FALSE>>, <<"eor", "IndexedIndirect", 6, FALSE>>,
    <<"kil", "Implied", 2, TRUE>>, <<"sre", "IndexedIndirect", 8, TRUE>>,
    <<"nop", "ZeroPage", 3, FALSE>>, <<"eor", "ZeroPage", 3, FALSE>>,
    <<"lsr", "ZeroPage", 5, FALSE>>, <<"sre", "ZeroPage", 5, TRUE>>,
    <<"pha", "Implied", 3, FALSE>>, <<"eor", "Immediate", 2, FALSE>>,
    <<"lsr", "Implied", 2, FALSE>>, <<"alr", "Immediate", 2, TRUE>>,
    <<"jmp", "Absolute", 3, FALSE>>, <<"eor", "Absolute", 4, FALSE>>,
    <<"lsr", "Absolute", 6, FALSE>>, <<"sre", "Absolute", 6, TRUE>>,
    <<"bvc", "Relative", 2, FALSE>>, <<"eor", "IndirectIndexed", 5, FALSE>>,
    <<"kil", "Implied", 2, TRUE>>, <<"sre", "IndirectIndexed", 8, TRUE>>,
    <<"nop", "ZeroPageX", 4, FALSE>>, <<"eor", "ZeroPageX", 4, FALSE>>,
    <<"lsr", "ZeroPageX", 6, FALSE>>, <<"sre", "ZeroPageX", 6, TRUE>>,
    <<"cli", "Implied", 2, FALSE>>, <<"eor", "AbsoluteY", 4, FALSE>>,
    <<"nop", "Implied", 2, FALSE>>, <<"sre", "AbsoluteY", 7, TRUE>>,
    <<"nop", "AbsoluteX", 4, FALSE>>, <<"eor", "AbsoluteX", 4, FALSE>>,
    <<"lsr", "AbsoluteX", 7, FALSE>>, <<"sre", "AbsoluteX", 7, TRUE>>,
    <<"rts", "Implied", 6, FALSE>>, <<"adc", "IndexedIndirect", 6, FALSE>>,
    <<"kil", "Implied", 2, TRUE>>, <<"rra", "IndexedIndirect", 8, TRUE>>,
    <<"nop", "ZeroPage", 3, FALSE>>, <<"adc", "ZeroPage", 3, FALSE>>,
    <<"ror", "ZeroPage", 5, FALSE>>, <<"rra", "ZeroPage", 5, TRUE>>,
    <<"pla", "Implied", 4, FALSE>>, <<"adc", "Immediate", 2, FALSE>>,
    <<"ror_a", "Implied", 2, FALSE>>, <<"arr", "Immediate", 2, TRUE>>,
    <<"jmp", "Indirect", 5, FALSE>>, <<"adc", "Absolute", 4, FALSE>>,
    <<"ror", "Absolute", 6, FALSE>>, <<"rra", "Absolute", 6, TRUE>>,
    <<"bvs", "Relative", 2, FALSE>>, <<"adc", "IndirectIndexed", 5, FALSE>>,
    <<"kil", "Implied", 2, TRUE>>, <<"rra", "IndirectIndexed", 8, TRUE>>,
    <<"nop", "ZeroPageX", 4, FALSE>>, <<"adc", "ZeroPageX", 4, FALSE>>,
    <<"ror", "ZeroPageX", 6, FALSE>>, <<"rra", "ZeroPageX", 6, TRUE>>,
    <<"sei", "Implied", 2, FALSE>>, <<"adc", "AbsoluteY", 4, FALSE>>,
    <<"nop", "Implied", 2, FALSE>>, <<"rra", "AbsoluteY", 7, TRUE>>,
    <<"nop", "AbsoluteX", 4, FALSE>>, <<"adc", "AbsoluteX", 4, FALSE>>,
    <<"ror", "AbsoluteX", 7, FALSE>>, <<"rra", "AbsoluteX", 7, TRUE>>,
    <<"nop", "Immediate", 2, FALSE>>, <<"sta", "IndexedIndirect", 6, FALSE>>,
    <<"nop", "Immediate", 2, FALSE>>, <<"sax", "IndexedIndirect", 6, TRUE>>,
    <<"sty", "ZeroPage", 3, FALSE>>, <<"sta", "ZeroPage", 3, FALSE>>,
    <<"stx", "ZeroPage", 3, FALSE>>, <<"sax", "ZeroPage", 3, TRUE>>,
    <<"dey", "Implied", 2, FALSE>>, <<"nop", "Immediate", 2, FALSE>>,
    <<"txa", "Implied", 2, FALSE>>, <<"xaa", "Immediate", 2, TRUE>>,
    <<"sty", "Absolute", 4, FALSE>>, <<"sta", "Absolute", 4, FALSE>>,
    <<"stx", "Absolute", 4, FALSE>>, <<"sax", "Absolute", 4, TRUE>>,
    <<"bcc", "Relative", 2, FALSE>>, <<"sta", "IndirectIndexed", 6, FALSE>>,
    <<"kil", "Implied", 2, TRUE>>, <<"ahx", "IndirectIndexed", 6, TRUE>>,
    <<"sty", "ZeroPageX", 4, FALSE>>, <<"sta", "ZeroPageX", 4, FALSE>>,
    <<"stx", "ZeroPageY", 4, FALSE>>, <<"sax", "ZeroPageY", 4, TRUE>>,
    <<"tya", "Implied", 2, FALSE>>, <<"sta", "AbsoluteY", 5, FALSE>>,
    <<"txs", "Implied", 2, FALSE>>, <<"tas", "AbsoluteY", 5, TRUE>>,
    <<"shy", "AbsoluteX", 5, TRUE>>, <<"sta", "AbsoluteX", 5, FALSE>>,
    <<"shx", "AbsoluteY", 5, TRUE>>, <<"ahx", "AbsoluteY", 5, TRUE>>,
    <<"ldy", "Immediate", 2, FALSE>>, <<"lda", "IndexedIndirect", 6, FALSE>>,
    <<"ldx", "Immediate", 2, FALSE>>, <<"lax", "IndexedIndirect", 6, TRUE>>,
    <<"ldy", "ZeroPage", 3, FALSE>>, <<"lda", "ZeroPage", 3, FALSE>>,
    <<"ldx", "ZeroPage", 3, FALSE>>, <<"lax", "ZeroPage", 3, TRUE>>,
    <<"tay", "Implied", 2, FALSE>>, <<"lda", "Immediate", 2, FALSE>>,
    <<"tax", "Implied", 2, FALSE>>, <<"lax", "Immediate", 2, TRUE>>,
    <<"ldy", "Absolute", 4, FALSE>>, <<"lda", "Absolute", 4, FALSE>>,
    <<"ldx", "Absolute", 4, FALSE>>, <<"lax", "Absolute", 4, TRUE>>,
    <<"bcs", "Relative", 2, FALSE>>, <<"lda", "IndirectIndexed", 5, FALSE>>,
    <<"kil", "Implied", 2, TRUE>>, <<"lax", "IndirectIndexed", 5, TRUE>>,
    <<"ldy", "ZeroPageX", 4, FALSE>>, <<"lda", "ZeroPageX", 4, FALSE>>,
    <<"ldx", "ZeroPageY", 4, FALSE>>, <<"lax", "ZeroPageY", 4, TRUE>>,
    <<"clv", "Implied", 2, FALSE>>, <<"lda", "AbsoluteY", 4, FALSE>>,
    <<"tsx", "Implied", 2, FALSE>>, <<"las", "AbsoluteY", 4, TRUE>>,
    <<"ldy", "AbsoluteX", 4, FALSE>>, <<"lda", "AbsoluteX", 4, FALSE>>,
    <<"ldx", "AbsoluteY", 4, FALSE>>, <<"lax", "AbsoluteY", 4, TRUE>>,
    <<"cpy", "Immediate", 2, FALSE>>, <<"cmp", "IndexedIndirect", 6, FALSE>>,
    <<"nop", "Immediate", 2, FALSE>>, <<"dcp", "IndexedIndirect", 8, TRUE>>,
    <<"cpy", "ZeroPage", 3, FALSE>>, <<"cmp", "ZeroPage", 3, FALSE>>,
    <<"dec", "ZeroPage", 5, FALSE>>, <<"dcp", "ZeroPage", 5, TRUE>>,
    <<"iny", "Implied", 2, FALSE>>, <<"cmp", "Immediate", 2, FALSE>>,
    <<"dex", "Implied", 2, FALSE>>, <<"axs", "Immediate", 2, TRUE>>,
    <<"cpy", "Absolute", 4, FALSE>>, <<"cmp", "Absolute", 4, FALSE>>,
    <<"dec", "Absolute", 6, FALSE>>, <<"dcp", "Absolute", 6, TRUE>>,
    <<"bne", "Relative", 2, FALSE>>, <<"cmp", "IndirectIndexed", 5, FALSE>>,
    <<"kil", "Implied", 2, TRUE>>, <<"dcp", "IndirectIndexed", 8, TRUE>>,
    <<"nop", "ZeroPageX", 4, FALSE>>, <<"cmp", "ZeroPageX", 4, FALSE>>,
    <<"dec", "ZeroPageX", 6, FALSE>>, <<"dcp", "ZeroPageX", 6, TRUE>>,
    <<"cld", "Implied", 2, FALSE>>, <<"cmp", "AbsoluteY", 4, FALSE>>,
    <<"nop", "Implied", 2, FALSE>>, <<"dcp", "AbsoluteY", 7, TRUE>>,
    <<"nop", "AbsoluteX", 4, FALSE>>, <<"cmp", "AbsoluteX", 4, FALSE>>,
    <<"dec", "AbsoluteX", 7, FALSE>>, <<"dcp", "AbsoluteX", 7, FALSE>>,
    <<"cpx", "Immediate", 2, FALSE>>, <<"sbc", "IndexedIndirect", 6, FALSE>>,
    <<"nop", "Immediate", 2, FALSE>>, <<"isc", "IndexedIndirect", 8, TRUE>>,
    <<"cpx", "ZeroPage", 3, FALSE>>, <<"sbc", "ZeroPage", 3, FALSE>>,
    <<"inc", "ZeroPage", 5, FALSE>>, <<"isc", "ZeroPage", 5, TRUE>>,
    <<"inx", "Implied", 2, FALSE>>, <<"sbc", "Immediate", 2, FALSE>>,
    <<"nop", "Implied", 2, FALSE>>, <<"sbc", "Immediate", 2, FALSE>>,
    <<"cpx", "Absolute", 4, FALSE>>, <<"sbc", "Absolute", 4, FALSE>>,
    <<"inc", "Absolute", 6, FALSE>>, <<"isc", "Absolute", 6, TRUE>>,
    <<"beq", "Relative", 2, FALSE>>, <<"sbc", "IndirectIndexed", 5, FALSE>>,
    <<"kil", "Implied", 2, TRUE>>, <<"isc", "IndirectIndexed", 8, TRUE>>,
    <<"nop", "ZeroPageX", 4, FALSE>>, <<"sbc", "ZeroPageX", 4, FALSE>>,
    <<"inc", "ZeroPageX", 6, FALSE>>, <<"isc", "ZeroPageX", 6, TRUE>>,
    <<"sed", "Implied", 2, FALSE>>, <<"sbc", "AbsoluteY", 4, FALSE>>,
    <<"nop", "Implied", 2, FALSE>>, <<"isc", "AbsoluteY", 7, TRUE>>,
    <<"nop", "AbsoluteX", 4, FALSE>>, <<"sbc", "AbsoluteX", 4, FALSE>>,
    <<"inc", "AbsoluteX", 7, FALSE>>, <<"isc", "AbsoluteX", 7, TRUE>>
  >>

get_cycles(opcode) == INSTRUCTION_LIST[opcode + 1][3]

get_addr_mode(opcode) == INSTRUCTION_LIST[opcode + 1][2]

fetch(c) ==
  IF c.addr_mode # "Implied"
  THEN [c EXCEPT !.fetched_data = read(c, c.addr_abs)]
  ELSE c

\* set_zn_flags as the handlers call it: on the value of the register named
set_zn_flags(c, value) ==
  set_flag(set_flag(c, Zero, value = 0), Negative, BitAnd(value, 128) # 0)

brk(c) ==
  LET c1 == [c EXCEPT !.pc = wrapping_add16(@, 1)]
      c2 == set_flag(c1, InterruptDisable, TRUE)
      c3 == push_word(c2, c2.pc)
      c4 == set_flag(c3, Break, TRUE)
      c5 == push(c4, c4.status)
      c6 == set_flag(c5, Break, FALSE)
  IN Ret([c6 EXCEPT !.pc = read_u16(c6, IRQ_VECTOR)], 0)

clc(c) == Ret(set_flag(c, Carry, FALSE), 0)

cld(c) == Ret(set_flag(c, Decimal, FALSE), 0)

cli(c) == Ret(set_flag(c, InterruptDisable, FALSE), 0)

clv(c) == Ret(set_flag(c, Overflow, FALSE), 0)

jmp(c) == Ret([c EXCEPT !.pc = c.addr_abs], 0)

\* release arithmetic: pc - 1 wraps (see call_overflows)
jsr(c) ==
  LET c1 == push_word(c, (c.pc + U16 - 1) % U16)
  IN Ret([c1 EXCEPT !.pc = c1.addr_abs], 0)

lda(c) ==
  LET c1 == fetch(c)
      c2 == [c1 EXCEPT !.a = c1.fetched_data]
  IN Ret(set_zn_flags(c2, c2.a), 1)

ldx(c) ==
  LET c1 == fetch(c)
      c2 == [c1 EXCEPT !.x = c1.fetched_data]
  IN Ret(set_zn_flags(c2, c2.x), 1)

ldy(c) ==
  LET c1 == fetch(c)
      c2 == [c1 EXCEPT !.y = c1.fetched_data]
  IN Ret(set_zn_flags(c2, c2.y), 1)

nop(c) == Ret(c, 0)

pha(c) == Ret(push(c, c.a), 0)

\* bool as u8 is 0 or 1
bool_u8(b) == IF b THEN 1 ELSE 0

php(c) ==
  LET c1 == push(c, BitOr(BitOr(c.status, bool_u8(get_flag(c, Break))),
                          bool_u8(get_flag(c, Unused))))
      c2 == set_flag(c1, Break, FALSE)
  IN Ret(set_flag(c2, Unused, FALSE), 0)

pla(c) ==
  LET p == pop(c)
      c1 == [p.cpu EXCEPT !.a = p.value]
  IN Ret(set_zn_flags(c1, c1.a), 0)

plp(c) ==
  LET p == pop(c)
      c1 == [p.cpu EXCEPT !.status = p.value]
  IN Ret(set_flag(c1, Unused, TRUE), 0)

rti(c) ==
  LET p == pop(c)
      c1 == [p.cpu EXCEPT !.status = p.value]
      c2 == set_flag(c1, Unused, FALSE)
      c3 == set_flag(c2, Break, FALSE)
      w == pop_word(c3)
  IN Ret([w.cpu EXCEPT !.pc = w.value], 0)

\* release arithmetic: the popped word + 1 wraps (see call_overflows)
\* rts returning to the address popped, without the increment
rts_no_increment(c) ==
  LET w == pop_word(c)
  IN Ret([w.cpu EXCEPT !.pc = w.value], 0)

rts(c) ==
  LET w == pop_word(c)
  IN Ret([w.cpu EXCEPT !.pc = wrapping_add16(w.value, 1)], 0)

sec(c) == Ret(set_flag(c, Carry, TRUE), 0)

sed(c) == Ret(set_flag(c, Decimal, TRUE), 0)

sei(c) == Ret(set_flag(c, InterruptDisable, TRUE), 0)

\* the handlers of the undocumented opcodes: each is "TODO", returning 0
todo(c) == Ret(c, 0)

store_result(c, value) ==
  IF c.addr_mode = "Implied"
  THEN [c EXCEPT !.a = BitAnd(value, 255)]
  ELSE write(c, c.addr_abs, BitAnd(value, 255))

\* release arithmetic: pc + addr_rel wraps (see call_overflows)
do_branch(c, condition) ==
  IF condition
  THEN LET c1 == [c EXCEPT !.addr_abs = wrapping_add16(c.pc, c.addr_rel)]
           extra_cycle == IF BitAnd(c1.addr_abs, 65280) # BitAnd(c1.pc, 65280)
                          THEN 1 ELSE 0
       IN Ret([c1 EXCEPT !.pc = c1.addr_abs], extra_cycle + 1)
  ELSE Ret(c, 0)

and(c) ==
  LET c1 == fetch(c)
      c2 == [c1 EXCEPT !.a = BitAnd(c1.a, c1.fetched_data)]
  IN Ret(set_zn_flags(c2, c2.a), 1)

asl(c) ==
  LET c1 == fetch(c)
      temp == c1.fetched_data * 2
      c2 == set_flag(c1, Carry, BitAnd(temp, 65280) > 0)
      c3 == set_flag(c2, Negative, BitAnd(temp, 128) > 0)
      c4 == set_flag(c3, Zero, BitAnd(temp, 255) = 0)
  IN Ret(IF c4.addr_mode = "Implied"
         THEN [c4 EXCEPT !.a = BitAnd(temp, 255)]
         ELSE write(c4, c4.addr_abs, BitAnd(temp, 255)), 0)

bcc(c) == do_branch(c, ~get_flag(c, Carry))

bcs(c) == do_branch(c, get_flag(c, Carry))

beq(c) == do_branch(c, get_flag(c, Zero))

bit(c) ==
  LET c1 == fetch(c)
      temp == BitAnd(c1.a, c1.fetched_data)
      c2 == set_flag(c1, Negative, BitAnd(c1.fetched_data, 128) > 0)
      c3 == set_flag(c2, Overflow, BitAnd(c1.fetched_data, 64) > 0)
  IN Ret(set_flag(c3, Zero, temp = 0), 0)

bmi(c) == do_branch(c, get_flag(c, Negative))

bne(c) == do_branch(c, ~get_flag(c, Zero))

bpl(c) == do_branch(c, ~get_flag(c, Negative))

bvc(c) == do_branch(c, ~get_flag(c, Overflow))

bvs(c) == do_branch(c, get_flag(c, Overflow))

\* cmp, cpx, cpy with the carry set only when the register is greater
compare_strict(c, register, return) ==
  LET c1 == fetch(c)
      temp == (register + U16 - c1.fetched_data) % U16
      c2 == set_flag(c1, Carry, register > c1.fetched_data)
  IN Ret(set_zn_flags(c2, temp % 256), return)

\* the u16 temp of cmp, cpx, cpy: register minus operand, wrapping
compare(c, register, return) ==
  LET c1 == fetch(c)
      temp == (register + U16 - c1.fetched_data) % U16
      c2 == set_flag(c1, Carry, register >= c1.fetched_data)
  IN Ret(set_zn_flags(c2, temp % 256), return)

cmp(c) == compare(c, c.a, 1)

cpx(c) == compare(c, c.x, 0)

cpy(c) == compare(c, c.y, 0)

dec(c) ==
  LET c1 == fetch(c)
      temp == (c1.fetched_data + U16 - 1) % U16
      c2 == write(c1, c1.addr_abs, BitAnd(temp, 255))
  IN Ret(set_zn_flags(c2, temp % 256), 0)

dex(c) ==
  LET c1 == [c EXCEPT !.x = wrapping_sub8(@, 1)]
  IN Ret(set_zn_flags(c1, c1.x), 0)

dey(c) ==
  LET c1 == [c EXCEPT !.y = wrapping_sub8(@, 1)]
  IN Ret(set_zn_flags(c1, c1.y), 0)

eor(c) ==
  LET c1 == fetch(c)
      c2 == [c1 EXCEPT !.a = BitXor(c1.a, c1.fetched_data)]
  IN Ret(set_zn_flags(c2, c2.a), 1)

inc(c) ==
  LET c1 == fetch(c)
      temp == (c1.fetched_data + 1) % U16
      c2 == write(c1, c1.addr_abs, BitAnd(temp, 255))
  IN Ret(set_zn_flags(c2, temp % 256), 0)

inx(c) ==
  LET c1 == [c EXCEPT !.x = wrapping_add8(@, 1)]
  IN Ret(set_zn_flags(c1, c1.x), 0)

iny(c) ==
  LET c1 == [c EXCEPT !.y = wrapping_add8(@, 1)]
  IN Ret(set_zn_flags(c1, c1.y), 0)

lsr(c) ==
  LET c1 == fetch(c)
      temp == c1.fetched_data \div 2
      c2 == set_flag(c1, Carry, BitAnd(temp, 1) # 0)
      c3 == set_zn_flags(c2, temp % 256)
  IN Ret(store_result(c3, temp), 0)

ora(c) ==
  LET c1 == fetch(c)
      c2 == [c1 EXCEPT !.a = BitOr(c1.a, c1.fetched_data)]
  IN Ret(set_zn_flags(c2, c2.a), 1)

\* rol without the carry shifted in
rol_no_carry_in(c) ==
  LET c1 == fetch(c)
      temp == c1.fetched_data * 2
      c2 == set_flag(c1, Carry, BitAnd(temp, 65280) # 0)
      c3 == set_zn_flags(c2, temp % 256)
  IN Ret(store_result(c3, temp), 0)

rol(c) ==
  LET c1 == fetch(c)
      temp == BitOr(c1.fetched_data * 2, IF get_flag(c1, Carry) THEN 1 ELSE 0)
      c2 == set_flag(c1, Carry, BitAnd(temp, 65280) # 0)
      c3 == set_zn_flags(c2, temp % 256)
  IN Ret(store_result(c3, temp), 0)

ror_a_nmos(c) ==
  LET temp == BitAnd(BitAnd(c.a, 127) * 2, 255)
      c1 == set_zn_flags(c, temp)
  IN Ret(IF c1.addr_mode = "Immediate"
         THEN [c1 EXCEPT !.a = temp]
         ELSE write(c1, c1.addr_abs, temp), 0)

ror_a_cmos(c) ==
  LET t0 == IF get_flag(c, Carry) THEN BitOr(c.a, 256) ELSE c.a
      c1 == set_flag(c, Carry, BitAnd(t0, 1) > 0)
      temp == BitAnd(t0 \div 2, 255)
      c2 == set_zn_flags(c1, temp)
  IN Ret([c2 EXCEPT !.a = temp], 0)

ror_nmos(c) ==
  LET c1 == fetch(c)
      temp == BitAnd(BitAnd(c1.fetched_data, 127) * 2, 255)
      c2 == set_flag(c1, Carry, BitAnd(temp, 128) > 0)
      c3 == set_zn_flags(c2, temp)
  IN Ret(write(c3, c3.addr_abs, temp), 0)

ror_cmos(c) ==
  LET c1 == fetch(c)
      t0 == IF get_flag(c1, Carry) THEN BitOr(c1.fetched_data, 256) ELSE c1.fetched_data
      c2 == set_flag(c1, Carry, BitAnd(t0, 1) > 0)
      temp == BitAnd(t0 \div 2, 255)
      c3 == set_zn_flags(c2, temp)
  IN Ret(write(c3, c3.addr_abs, temp), 0)

ror_a(c) == IF c.variant = "NMOS" THEN ror_a_nmos(c) ELSE ror_a_cmos(c)

ror(c) == IF c.variant = "NMOS" THEN ror_nmos(c) ELSE ror_cmos(c)

sta(c) == Ret(write(c, c.addr_abs, c.a), 0)

stx(c) == Ret(write(c, c.addr_abs, c.x), 0)

sty(c) == Ret(write(c, c.addr_abs, c.y), 0)

tax(c) ==
  LET c1 == [c EXCEPT !.x = c.a]
  IN Ret(set_zn_flags(c1, c1.x), 0)

tay(c) ==
  LET c1 == [c EXCEPT !.y = c.a]
  IN Ret(set_zn_flags(c1, c1.y), 0)

tsx(c) ==
  LET c1 == [c EXCEPT !.x = c.sp]
  IN Ret(set_zn_flags(c1, c1.x), 0)

txa(c) ==
  LET c1 == [c EXCEPT !.a = c.x]
  IN Ret(set_zn_flags(c1, c1.a), 0)

\* txs that sets N and Z from the value copied, as the other transfers do
txs_with_flags(c) ==
  LET c1 == [c EXCEPT !.sp = c.x]
  IN Ret(set_zn_flags(c1, c1.sp), 0)

txs(c) == Ret([c EXCEPT !.sp = c.x], 0)

tya(c) ==
  LET c1 == [c EXCEPT !.a = c.y]
  IN Ret(set_zn_flags(c1, c1.a), 0)

\* adc with the decimal adjustment on every variant
adc_decimal_on_nes(c) ==
  LET c1 == fetch(c)
      carry == IF get_flag(c1, Carry) THEN 1 ELSE 0
      t0 == c1.a + c1.fetched_data + carry
      c2 == IF BitAnd(t0, 255) = 0 THEN set_flag(c1, Zero, TRUE) ELSE c1
  IN IF get_flag(c2, Decimal)
     THEN LET t1 == IF BitAnd(c2.a, 15) + BitAnd(c2.fetched_data, 15) + carry > 9
                    THEN t0 + 6 ELSE t0
              t2 == IF t1 > 99 THEN t1 + 96 ELSE t1
          IN Ret([c2 EXCEPT !.a = BitAnd(t2, 255)], 1)
     ELSE Ret([c2 EXCEPT !.a = BitAnd(t0, 255)], 0)

adc(c) ==
  LET c1 == fetch(c)
      carry == IF get_flag(c1, Carry) THEN 1 ELSE 0
      t0 == c1.a + c1.fetched_data + carry
      c2 == IF BitAnd(t0, 255) = 0 THEN set_flag(c1, Zero, TRUE) ELSE c1
  IN IF c2.variant # "NES"
     THEN IF get_flag(c2, Decimal)
          THEN LET t1 == IF BitAnd(c2.a, 15) + BitAnd(c2.fetched_data, 15) + carry > 9
                         THEN t0 + 6 ELSE t0
                   c3 == IF BitAnd(t1, 128) > 0 THEN set_flag(c2, Negative, TRUE) ELSE c2
                   c4 == set_flag(c3, Overflow,
                                  /\ BitAnd(BitXor(c3.a, c3.fetched_data), 128) = 0
                                  /\ BitAnd(BitXor(c3.fetched_data, t1 % 256), 128) # 0)
                   t2 == IF t1 > 99 THEN t1 + 96 ELSE t1
                   c5 == set_flag(c4, Carry, t2 > 39423)
               IN Ret([c5 EXCEPT !.a = BitAnd(t2, 255)], 1)
          ELSE Ret([c2 EXCEPT !.a = BitAnd(t0, 255)], 0)
     ELSE LET c3 == set_flag(c2, Negative, BitAnd(t0, 128) > 0)
              c4 == set_flag(c3, Overflow, BitAnd(BitXor(c3.a, c3.fetched_data), 128) > 0)
              c5 == set_flag(c4, Carry, t0 > 255)
          IN Ret([c5 EXCEPT !.a = BitAnd(t0, 255)], 0)

\* the u16 temp of sbc before and after its decimal digit adjustment
sbc_temp(c1) ==
  (c1.a + 2 * U16 - c1.fetched_data - (IF get_flag(c1, Carry) THEN 1 ELSE 0)) % U16

sbc_adjusted(c1) ==
  IF BitAnd(sbc_temp(c1), 15) > 9 THEN sbc_temp(c1) - 6 ELSE sbc_temp(c1)

\* release arithmetic: temp += 0x0060 wraps (see call_overflows)
sbc(c) ==
  LET c1 == fetch(c)
      t0 == sbc_temp(c1)
      c2 == set_flag(c1, Zero, BitAnd(t0, 255) = 0)
  IN IF c2.variant # "NES"
     THEN IF get_flag(c2, Decimal)
          THEN LET t1 == sbc_adjusted(c1)
                   c3 == set_flag(c2, Negative, BitAnd(t1, 128) > 0)
                   c4 == set_flag(c3, Overflow,
                                  BitAnd(BitAnd(BitXor(c3.a, t1 % 256),
                                                BitXor(c3.fetched_data, t1 % 256)), 128) > 0)
                   t2 == IF t1 > 39423 THEN (t1 + 96) % U16 ELSE t1
                   c5 == set_flag(c4, Carry, t2 > 39423)
               IN Ret([c5 EXCEPT !.a = BitAnd(t2, 255)], 1)
          ELSE Ret([c2 EXCEPT !.a = BitAnd(t0, 255)], 0)
     ELSE LET c3 == set_flag(c2, Negative, BitAnd(t0, 128) > 0)
              c4 == set_flag(c3, Overflow,
                             /\ BitAnd(BitXor(c3.a, c3.fetched_data), 128) # 0
                             /\ BitAnd(BitXor(c3.fetched_data, t0 % 256), 128) = 0)
              c5 == set_flag(c4, Carry, t0 > 255)
          IN Ret([c5 EXCEPT !.a = BitAnd(t0, 255)], 0)

sbc_overflows(c) ==
  LET c1 == fetch(c)
  IN /\ c1.variant # "NES" /\ get_flag(c1, Decimal)
     /\ sbc_adjusted(c1) > 39423 /\ sbc_adjusted(c1) + 96 >= U16

BranchHandlers == {"bcc", "bcs", "beq", "bmi", "bne", "bpl", "bvc", "bvs"}

TodoHandlers ==
  {"ahx", "alr", "anc", "arr", "axs", "dcp", "isc", "kil", "las", "lax",
   "rla", "rra", "sax", "shx", "shy", "slo", "sre", "tas", "xaa"}

call(function, c) ==
  CASE function = "adc" -> adc(c)
    [] function = "and" -> and(c)
    [] function = "asl" -> asl(c)
    [] function = "bcc" -> bcc(c)
    [] function = "bcs" -> bcs(c)
    [] function = "beq" -> beq(c)
    [] function = "bit" -> bit(c)
    [] function = "bmi" -> bmi(c)
    [] function = "bne" -> bne(c)
    [] function = "bpl" -> bpl(c)
    [] function = "brk" -> brk(c)
    [] function = "bvc" -> bvc(c)
    [] function = "bvs" -> bvs(c)
    [] function = "clc" -> clc(c)
    [] function = "cld" -> cld(c)
    [] function = "cli" -> cli(c)
    [] function = "clv" -> clv(c)
    [] function = "cmp" -> cmp(c)
    [] function = "cpx" -> cpx(c)
    [] function = "cpy" -> cpy(c)
    [] function = "dec" -> dec(c)
    [] function = "dex" -> dex(c)
    [] function = "dey" -> dey(c)
    [] function = "eor" -> eor(c)
    [] function = "inc" -> inc(c)
    [] function = "inx" -> inx(c)
    [] function = "iny" -> iny(c)
    [] function = "jmp" -> jmp(c)
    [] function = "jsr" -> jsr(c)
    [] function = "lda" -> lda(c)
    [] function = "ldx" -> ldx(c)
    [] function = "ldy" -> ldy(c)
    [] function = "lsr" -> lsr(c)
    [] function = "nop" -> nop(c)
    [] function = "ora" -> ora(c)
    [] function = "pha" -> pha(c)
    [] function = "php" -> php(c)
    [] function = "pla" -> pla(c)
    [] function = "plp" -> plp(c)
    [] function = "rol" -> rol(c)
    [] function = "ror" -> ror(c)
    [] function = "ror_a" -> ror_a(c)
    [] function = "rti" -> rti(c)
    [] function = "rts" -> rts(c)
    [] function = "sbc" -> sbc(c)
    [] function = "sec" -> sec(c)
    [] function = "sed" -> sed(c)
    [] function = "sei" -> sei(c)
    [] function = "sta" -> sta(c)
    [] function = "stx" -> stx(c)
    [] function = "sty" -> sty(c)
    [] function = "tax" -> tax(c)
    [] function = "tay" -> tay(c)
    [] function = "tsx" -> tsx(c)
    [] function = "txa" -> txa(c)
    [] function = "txs" -> txs(c)
    [] function = "tya" -> tya(c)
    [] function \in TodoHandlers -> todo(c)

\* a u16 addition of the handler overflows
call_overflows(function, c) ==
  CASE function = "brk" -> c.pc + 1 >= U16
    [] function = "jsr" -> c.pc = 0
    [] function = "rts" -> pop_word(c).value + 1 >= U16
    [] function = "sbc" -> sbc_overflows(c)
    [] function \in BranchHandlers ->
         call(function, c).ret > 0 /\ c.pc + c.addr_rel >= U16
    [] OTHER -> FALSE

execute_instruction(c, opcode) == call(INSTRUCTION_LIST[opcode + 1][1], c)

\* disassemble_instruction_at / get_operand_string only read the bus; their
\* additions overflow for an opcode at 0xFFFF or a word operand at 0xFFFF
disassemble_overflows(c) ==
  \/ c.pc + 1 >= U16
  \/ get_addr_mode(read(c, c.pc)) \in AbsoluteModes /\ read_u16_overflows(c.pc + 1)

\* clock(), from a state with cycles = 0, up to the final decrement
clock_fetch(c) ==
  LET c1 == [c EXCEPT !.opcode = read(c, c.pc)]
      c2 == [c1 EXCEPT !.pc = wrapping_add16(@, 1)]
      c3 == [c2 EXCEPT !.cycles = get_cycles(c2.opcode)]
      c4 == [c3 EXCEPT !.addr_mode = get_addr_mode(c3.opcode)]
      m == execute_addr_mode(c4, c4.addr_mode)
      i == execute_instruction(m.cpu, m.cpu.opcode)
  IN [i.cpu EXCEPT !.cycles = @ + m.ret + i.ret]

\* clock() that fetches and executes at every call, whatever the counter
clock_every_call(c) == [clock_fetch(c) EXCEPT !.cycles = @ - 1]

clock(c) ==
  LET c1 == IF c.cycles = 0 THEN clock_fetch(c) ELSE c
  IN [c1 EXCEPT !.cycles = @ - 1]

clock_overflows(c) ==
  /\ c.cycles = 0
  /\ \/ disassemble_overflows(c)
     \/ LET opcode == read(c, c.pc)
            c1 == [c EXCEPT !.opcode = opcode, !.pc = wrapping_add16(@, 1),
                            !.addr_mode = get_addr_mode(opcode)]
        IN \/ execute_overflows(c1.addr_mode, c1)
           \/ call_overflows(INSTRUCTION_LIST[opcode + 1][1],
                             execute_addr_mode(c1, c1.addr_mode).cpu)

-----------------------------------------------------------------------------
(* registers.rs and cpu.rs: the step-driven core CPU<B> *)

StatusFlags_new ==
  [negative |-> FALSE, overflow |-> FALSE, unused |-> TRUE, break_mode |-> FALSE,
   decimal_mode |-> FALSE, interrupt_disable |-> FALSE, zero |-> FALSE,
   carry |-> FALSE]

to_byte(s) ==
    (IF s.negative THEN Pow2(7) ELSE 0)
  + (IF s.overflow THEN Pow2(6) ELSE 0)
  + (IF s.unused THEN Pow2(5) ELSE 0)
  + (IF s.break_mode THEN Pow2(4) ELSE 0)
  + (IF s.decimal_mode THEN Pow2(3) ELSE 0)
  + (IF s.interrupt_disable THEN Pow2(2) ELSE 0)
  + (IF s.zero THEN Pow2(1) ELSE 0)
  + (IF s.carry THEN 1 ELSE 0)

from_byte(byte) ==
  [negative |-> BitAnd(byte, Pow2(7)) # 0,
   overflow |-> BitAnd(byte, Pow2(6)) # 0,
   unused |-> BitAnd(byte, Pow2(5)) # 0,
   break_mode |-> BitAnd(byte, Pow2(4)) # 0,
   decimal_mode |-> BitAnd(byte, Pow2(3)) # 0,
   interrupt_disable |-> BitAnd(byte, Pow2(2)) # 0,
   zero |-> BitAnd(byte, Pow2(1)) # 0,
   carry |-> BitAnd(byte, 1) # 0]

CPU_new(bus) ==
  [core |-> "CPU", a |-> 0, x |-> 0, y |-> 0, sp |-> 253, pc |-> 0,
   status |-> StatusFlags_new, cycles |-> 0, bus |-> bus]

CPU_reset(c) ==
  LET lo == bus_read(c.bus, 65532)
      hi == bus_read(c.bus, 65533)
  IN [c EXCEPT !.pc = word(hi, lo), !.sp = 253, !.status = StatusFlags_new,
               !.cycles = 0]

stack_push(c, data) ==
  [c EXCEPT !.bus = bus_write(@, 256 + c.sp, data), !.sp = wrapping_sub8(@, 1)]

stack_pop(c) ==
  LET c1 == [c EXCEPT !.sp = wrapping_add8(@, 1)]
  IN [cpu |-> c1, value |-> bus_read(c1.bus, 256 + c1.sp)]

interrupt(c, nmi) ==
  IF c.status.interrupt_disable /\ ~nmi
  THEN c
  ELSE LET c1 == stack_push(c, hi8(c.pc))
           c2 == stack_push(c1, BitAnd(c1.pc, 255))
           status == BitOr(BitAnd(to_byte(c2.status), BitNot8(16)), 32)
           c3 == stack_push(c2, status)
           c4 == [c3 EXCEPT !.status.interrupt_disable = TRUE]
           vector_address == IF nmi THEN 65530 ELSE 65534
           lo == bus_read(c4.bus, vector_address)
           hi == bus_read(c4.bus, vector_address + 1)
       IN [c4 EXCEPT !.pc = word(hi, lo)]

CPU_irq(c) == interrupt(c, FALSE)

CPU_nmi(c) == interrupt(c, TRUE)

-----------------------------------------------------------------------------
(* addressing_modes.rs: the addressing modes of the step-driven core.  Each *)
(* returns the CPU it leaves, the address and the additional cycles.        *)

fetch_byte(c) ==
  [cpu |-> [c EXCEPT !.pc = wrapping_add16(@, 1)], value |-> bus_read(c.bus, c.pc)]

fetch_word(c) ==
  LET lo == fetch_byte(c)
      hi == fetch_byte(lo.cpu)
  IN [cpu |-> hi.cpu, value |-> word(hi.value, lo.value)]

Mode(c, addr, additional_cycles) ==
  [cpu |-> c, addr |-> addr, cycles |-> additional_cycles]

\* (base & 0xFF00) != (addr & 0xFF00)
page_cross(base, addr) == (base \div 256) # (addr \div 256)

accumulator(c) == Mode(c, 0, 0)

absolute(c) ==
  LET w == fetch_word(c)
  IN Mode(w.cpu, w.value, 0)

absolute_x(c) ==
  LET w == fetch_word(c)
      addr == wrapping_add16(w.value, w.cpu.x)
  IN Mode(w.cpu, addr, IF page_cross(w.value, addr) THEN 1 ELSE 0)

absolute_y(c) ==
  LET w == fetch_word(c)
      addr == wrapping_add16(w.value, w.cpu.y)
  IN Mode(w.cpu, addr, IF page_cross(w.value, addr) THEN 1 ELSE 0)

immediate(c) == Mode([c EXCEPT !.pc = wrapping_add16(@, 1)], c.pc, 0)

implied(c) == Mode(c, 0, 0)

\* indirect with the high byte always read from ptr + 1
indirect_fixed(c) ==
  LET w == fetch_word(c)
      ptr == w.value
      lo == bus_read(w.cpu.bus, ptr)
      hi == bus_read(w.cpu.bus, wrapping_add16(ptr, 1))
  IN Mode(w.cpu, word(hi, lo), 0)

\* ptr + 1 is computed only where the low byte of ptr is not 0xFF
indirect(c) ==
  LET w == fetch_word(c)
      ptr == w.value
      lo == bus_read(w.cpu.bus, ptr)
      hi_address == IF BitAnd(ptr, 255) = 255 THEN BitAnd(ptr, 65280) ELSE ptr + 1
      hi == bus_read(w.cpu.bus, hi_address)
  IN Mode(w.cpu, word(hi, lo), 0)

indirect_x(c) ==
  LET b == fetch_byte(c)
      ptr == wrapping_add8(b.value, b.cpu.x)
      lo == bus_read(b.cpu.bus, ptr)
      hi == bus_read(b.cpu.bus, wrapping_add8(ptr, 1))
  IN Mode(b.cpu, word(hi, lo), 0)

indirect_y(c) ==
  LET b == fetch_byte(c)
      ptr == b.value
      lo == bus_read(b.cpu.bus, ptr)
      hi == bus_read(b.cpu.bus, wrapping_add8(ptr, 1))
      base_addr == word(hi, lo)
      addr == wrapping_add16(base_addr, b.cpu.y)
  IN Mode(b.cpu, addr, IF page_cross(base_addr, addr) THEN 1 ELSE 0)

\* u8 as i8 as u16: the sign-extended offset
sign_extend(offset) == IF offset >= 128 THEN offset + 65280 ELSE offset

relative(c) ==
  LET b == fetch_byte(c)
  IN Mode(b.cpu, wrapping_add16(b.cpu.pc, sign_extend(b.value)), 0)

zero_page(c) ==
  LET b == fetch_byte(c)
  IN Mode(b.cpu, b.value, 0)

\* zero_page_x adding the index as a u16
zero_page_x_unwrapped(c) ==
  LET b == fetch_byte(c)
  IN Mode(b.cpu, b.value + b.cpu.x, 0)

zero_page_x(c) ==
  LET b == fetch_byte(c)
  IN Mode(b.cpu, wrapping_add8(b.value, b.cpu.x), 0)

zero_page_y(c) ==
  LET b == fetch_byte(c)
  IN Mode(b.cpu, wrapping_add8(b.value, b.cpu.y), 0)

AddressingModes ==
  {"accumulator", "absolute", "absolute_x", "absolute_y", "immediate", "implied",
   "indirect", "indirect_x", "indirect_y", "relative", "zero_page", "zero_page_x",
   "zero_page_y"}

\* a call through an AddressingMode<B> function pointer
addressing_mode(mode, c) ==
  CASE mode = "accumulator" -> accumulator(c)
    [] mode = "absolute" -> absolute(c)
    [] mode = "absolute_x" -> absolute_x(c)
    [] mode = "absolute_y" -> absolute_y(c)
    [] mode = "immediate" -> immediate(c)
    [] mode = "implied" -> implied(c)
    [] mode = "indirect" -> indirect(c)
    [] mode = "indirect_x" -> indirect_x(c)
    [] mode = "indirect_y" -> indirect_y(c)
    [] mode = "relative" -> relative(c)
    [] mode = "zero_page" -> zero_page(c)
    [] mode = "zero_page_x" -> zero_page_x(c)
    [] mode = "zero_page_y" -> zero_page_y(c)

-----------------------------------------------------------------------------
(* cpu.rs: step() of the step-driven core.  init_instruction_table maps an  *)
(* opcode to <<instruction, addressing mode, base cycles>>, in the order of *)
(* the map_opcode calls.                                                    *)

instruction_table ==
  (105 :> <<"adc", "immediate", 2>>) @@ (101 :> <<"adc", "zero_page", 3>>) @@
  (117 :> <<"adc", "zero_page_x", 4>>) @@ (109 :> <<"adc", "absolute", 4>>) @@
  (125 :> <<"adc", "absolute_x", 4>>) @@ (121 :> <<"adc", "absolute_y", 4>>) @@
  (97 :> <<"adc", "indirect_x", 6>>) @@ (113 :> <<"adc", "indirect_y", 5>>) @@
  (41 :> <<"and", "immediate", 2>>) @@ (37 :> <<"and", "zero_page", 3>>) @@
  (53 :> <<"and", "zero_page_x", 4>>) @@ (45 :> <<"and", "absolute", 4>>) @@
  (61 :> <<"and", "absolute_x", 4>>) @@ (57 :> <<"and", "absolute_y", 4>>) @@
  (33 :> <<"and", "indirect_x", 6>>) @@ (49 :> <<"and", "indirect_y", 5>>) @@
  (10 :> <<"asl", "accumulator", 2>>) @@ (6 :> <<"asl", "zero_page", 5>>) @@
  (22 :> <<"asl", "zero_page_x", 6>>) @@ (14 :> <<"asl", "absolute", 6>>) @@
  (30 :> <<"asl", "absolute_x", 7>>) @@ (144 :> <<"bcc", "relative", 2>>) @@
  (176 :> <<"bcs", "relative", 2>>) @@ (240 :> <<"beq", "relative", 2>>) @@
  (36 :> <<"bit", "zero_page", 3>>) @@ (44 :> <<"bit", "absolute", 4>>) @@
  (48 :> <<"bmi", "relative", 2>>) @@ (208 :> <<"bne", "relative", 2>>) @@
  (16 :> <<"bpl", "relative", 2>>) @@ (0 :> <<"brk", "implied", 7>>) @@
  (80 :> <<"bvc", "relative", 2>>) @@ (112 :> <<"bvs", "relative", 2>>) @@
  (24 :> <<"clc", "implied", 2>>) @@ (216 :> <<"cld", "implied", 2>>) @@
  (88 :> <<"cli", "implied", 2>>) @@ (184 :> <<"clv", "implied", 2>>) @@
  (201 :> <<"cmp", "immediate", 2>>) @@ (197 :> <<"cmp", "zero_page", 3>>) @@
  (213 :> <<"cmp", "zero_page_x", 4>>) @@ (205 :> <<"cmp", "absolute", 4>>) @@
  (221 :> <<"cmp", "absolute_x", 4>>) @@ (217 :> <<"cmp", "absolute_y", 4>>) @@
  (193 :> <<"cmp", "indirect_x", 6>>) @@ (209 :> <<"cmp", "indirect_y", 5>>) @@
  (224 :> <<"cpx", "immediate", 2>>) @@ (228 :> <<"cpx", "zero_page", 3>>) @@
  (236 :> <<"cpx", "absolute", 4>>) @@ (192 :> <<"cpy", "immediate", 2>>) @@
  (196 :> <<"cpy", "zero_page", 3>>) @@ (204 :> <<"cpy", "absolute", 4>>) @@
  (198 :> <<"dec", "zero_page", 5>>) @@ (214 :> <<"dec", "zero_page_x", 6>>) @@
  (206 :> <<"dec", "absolute", 6>>) @@ (222 :> <<"dec", "absolute_x", 7>>) @@
  (202 :> <<"dex", "implied", 2>>) @@ (136 :> <<"dey", "implied", 2>>) @@
  (73 :> <<"eor", "immediate", 2>>) @@ (69 :> <<"eor", "zero_page", 3>>) @@
  (85 :> <<"eor", "zero_page_x", 4>>) @@ (77 :> <<"eor", "absolute", 4>>) @@
  (93 :> <<"eor", "absolute_x", 4>>) @@ (89 :> <<"eor", "absolute_y", 4>>) @@
  (65 :> <<"eor", "indirect_x", 6>>) @@ (81 :> <<"eor", "indirect_y", 5>>) @@
  (230 :> <<"inc", "zero_page", 5>>) @@ (246 :> <<"inc", "zero_page_x", 6>>) @@
  (238 :> <<"inc", "absolute", 6>>) @@ (254 :> <<"inc", "absolute_x", 7>>) @@
  (232 :> <<"inx", "implied", 2>>) @@ (200 :> <<"iny", "implied", 2>>) @@
  (76 :> <<"jmp", "absolute", 3>>) @@ (108 :> <<"jmp", "indirect", 5>>) @@
  (32 :> <<"jsr", "absolute", 6>>) @@ (169 :> <<"lda", "immediate", 2>>) @@
  (165 :> <<"lda", "zero_page", 3>>) @@ (181 :> <<"lda", "zero_page_x", 4>>) @@
  (173 :> <<"lda", "absolute", 4>>) @@ (189 :> <<"lda", "absolute_x", 4>>) @@
  (185 :> <<"lda", "absolute_y", 4>>) @@ (161 :> <<"lda", "indirect_x", 6>>) @@
  (177 :> <<"lda", "indirect_y", 5>>) @@ (162 :> <<"ldx", "immediate", 2>>) @@
  (166 :> <<"ldx", "zero_page", 3>>) @@ (182 :> <<"ldx", "zero_page_y", 4>>) @@
  (174 :> <<"ldx", "absolute", 4>>) @@ (190 :> <<"ldx", "absolute_y", 4>>) @@
  (160 :> <<"ldy", "immediate", 2>>) @@ (164 :> <<"ldy", "zero_page", 3>>) @@
  (180 :> <<"ldy", "zero_page_x", 4>>) @@ (172 :> <<"ldy", "absolute", 4>>) @@
  (188 :> <<"ldy", "absolute_x", 4>>) @@ (74 :> <<"lsr_accumulator", "accumulator", 2>>) @@
  (70 :> <<"lsr_memory", "zero_page", 5>>) @@ (86 :> <<"lsr_memory", "zero_page_x", 6>>) @@
  (78 :> <<"lsr_memory", "absolute", 6>>) @@ (94 :> <<"lsr_memory", "absolute_x", 7>>) @@
  (234 :> <<"nop", "implied", 2>>) @@ (9 :> <<"ora", "immediate", 2>>) @@
  (5 :> <<"ora", "zero_page", 3>>) @@ (21 :> <<"ora", "zero_page_x", 4>>) @@
  (13 :> <<"ora", "absolute", 4>>) @@ (29 :> <<"ora", "absolute_x", 4>>) @@
  (25 :> <<"ora", "absolute_y", 4>>) @@ (1 :> <<"ora", "indirect_x", 6>>) @@
  (17 :> <<"ora", "indirect_y", 5>>) @@ (72 :> <<"pha", "implied", 3>>) @@
  (8 :> <<"php", "implied", 3>>) @@ (104 :> <<"pla", "implied", 4>>) @@
  (40 :> <<"plp", "implied", 4>>) @@ (42 :> <<"rol_accumulator", "accumulator", 2>>) @@
  (38 :> <<"rol_memory", "zero_page", 5>>) @@ (54 :> <<"rol_memory", "zero_page_x", 6>>) @@
  (46 :> <<"rol_memory", "absolute", 6>>) @@ (62 :> <<"rol_memory", "absolute_x", 7>>) @@
  (106 :> <<"ror_accumulator", "accumulator", 2>>) @@ (102 :> <<"ror_memory", "zero_page", 5>>) @@
  (118 :> <<"ror_memory", "zero_page_x", 6>>) @@ (110 :> <<"ror_memory", "absolute", 6>>) @@
  (126 :> <<"ror_memory", "absolute_x", 7>>) @@ (64 :> <<"rti", "implied", 6>>) @@
  (96 :> <<"rts", "implied", 6>>) @@ (233 :> <<"sbc", "immediate", 2>>) @@
  (229 :> <<"sbc", "zero_page", 3>>) @@ (245 :> <<"sbc", "zero_page_x", 4>>) @@
  (237 :> <<"sbc", "absolute", 4>>) @@ (253 :> <<"sbc", "absolute_x", 4>>) @@
  (249 :> <<"sbc", "absolute_y", 4>>) @@ (225 :> <<"sbc", "indirect_x", 6>>) @@
  (241 :> <<"sbc", "indirect_y", 5>>) @@ (56 :> <<"sec", "implied", 2>>) @@
  (248 :> <<"sed", "implied", 2>>) @@ (120 :> <<"sei", "implied", 2>>) @@
  (133 :> <<"sta", "zero_page", 3>>) @@ (149 :> <<"sta", "zero_page_x", 4>>) @@
  (141 :> <<"sta", "absolute", 4>>) @@ (157 :> <<"sta", "absolute_x", 5>>) @@
  (153 :> <<"sta", "absolute_y", 5>>) @@ (129 :> <<"sta", "indirect_x", 6>>) @@
  (145 :> <<"sta", "indirect_y", 6>>) @@ (134 :> <<"stx", "zero_page", 3>>) @@
  (150 :> <<"stx", "zero_page_y", 4>>) @@ (142 :> <<"stx", "absolute", 4>>) @@
  (132 :> <<"sty", "zero_page", 3>>) @@ (148 :> <<"sty", "zero_page_x", 4>>) @@
  (140 :> <<"sty", "absolute", 4>>) @@ (170 :> <<"tax", "implied", 2>>) @@
  (168 :> <<"tay", "implied", 2>>) @@ (186 :> <<"tsx", "implied", 2>>) @@
  (138 :> <<"txa", "implied", 2>>) @@ (154 :> <<"txs", "implied", 2>>) @@
  (152 :> <<"tya", "implied", 2>>)

\* the instruction handlers of the step-driven core that the programs below
\* use: CLI clears the interrupt-disable flag, NOP does nothing; both return
\* no additional cycle
instruction(name, c, addr) ==
  CASE name = "cli" -> [cpu |-> [c EXCEPT !.status.interrupt_disable = FALSE], cycles |-> 0]
    [] name = "nop" -> [cpu |-> c, cycles |-> 0]

\* the fields of the panic message: the opcode and registers.pc
unimplemented_instruction(c, opcode) == <<opcode, c.pc>>

\* step() finds no entry for the opcode it fetched
step_unimplemented(c) == fetch_byte(c).value \notin DOMAIN instruction_table

step(c) ==
  LET f == fetch_byte(c)
      decoded_instruction == instruction_table[f.value]
      m == addressing_mode(decoded_instruction[2], f.cpu)
      i == instruction(decoded_instruction[1], m.cpu, m.addr)
      total_cycles == decoded_instruction[3] + m.cycles + i.cycles
  IN [i.cpu EXCEPT !.cycles = @ + total_cycles]

-----------------------------------------------------------------------------
(* Views common to the two cores *)

\* the packed status byte P
P(c) == IF c.core = "Cpu" THEN c.status ELSE to_byte(c.status)

FlagI(c) == Bit(P(c), 2) = 1

\* the six architectural flags N V D I Z C of a status byte
NVDIZC(p) == BitAnd(p, 207)

Mem(c, address) == bus_read(c.bus, address)

Word(c, address) == word(Mem(c, address + 1), Mem(c, address))

StackAddr(s) == 256 + (s % 256)

Written(c0, c1) ==
  {k \in DOMAIN c0.bus \cup DOMAIN c1.bus : Mem(c0, k) # Mem(c1, k)}

-----------------------------------------------------------------------------
(* The host: construction, the memory image it loads, the registers it sets *)

PHP == 8
PLP == 40
RTI == 64
BRK == 0
SEC == 56
SED == 248

Opcodes == {BRK, PHP, PLP, RTI, SEC, SED}

Programs == {<<o1, o2>> : o1 \in Opcodes, o2 \in Opcodes}

StackFill == {0, 255}

\* <<sp, status byte>> as the host sets them before the first call
Setups == {<<255, 0>>, <<255, 36>>, <<253, 52>>, <<0, 195>>, <<1, 255>>, <<2, 4>>}

ProgBase == 32768

\* vectors as the tests lay them out: reset -> 0x8000, IRQ/BRK -> 0x2000,
\* NMI -> 0x3000; an RTI at each handler; the program at 0x8000
Image(prog, fill) ==
  LET vectors == (65532 :> 0) @@ (65533 :> 128) @@ (65534 :> 0) @@ (65535 :> 32)
                 @@ (65530 :> 0) @@ (65531 :> 48)
      handlers == (8192 :> RTI) @@ (12288 :> RTI)
      code == [k \in {ProgBase + i - 1 : i \in 1..Len(prog)} |-> prog[k - ProgBase + 1]]
      stack == [k \in {510, 511, 256, 257, 258, 259, 260} |-> fill]
  IN vectors @@ handlers @@ code @@ stack

Init ==
  /\ \E prog \in Programs, fill \in StackFill, r \in Setups :
       \/ cpu = [Cpu_new(Image(prog, fill)) EXCEPT !.pc = ProgBase, !.sp = r[1],
                                                    !.status = r[2]]
       \/ cpu = [CPU_new(Image(prog, fill)) EXCEPT !.pc = ProgBase, !.sp = r[1],
                                                    !.status = from_byte(r[2])]
  /\ pre = cpu
  /\ op = "new"
  /\ booted = FALSE
  /\ nsig = 0
  /\ ninstr = 0
  /\ trail = <<>>
  /\ arg = 0
  /\ ret = 0

-----------------------------------------------------------------------------
(* The operations of the two cores *)

Live == op \notin {"panic", "execute_panic", "step_panic"}

\* what the host saw of the CPU when it made a call
Snap(kind, c) ==
  [op |-> kind, pc |-> c.pc, sp |-> c.sp, p |-> P(c), opcode |-> Mem(c, c.pc)]

\* the last two calls that were not idle clock ticks, oldest first
Remember(kind) ==
  trail' = IF Len(trail) < 2 THEN Append(trail, Snap(kind, cpu))
           ELSE <<trail[2], Snap(kind, cpu)>>

Reset ==
  /\ Live /\ cpu.core = "Cpu" /\ nsig < MaxSignals
  /\ cpu' = Cpu_reset(cpu)
  /\ pre' = cpu /\ op' = "reset" /\ booted' = TRUE /\ nsig' = nsig + 1
  /\ UNCHANGED ninstr
  /\ Remember("reset")
  /\ UNCHANGED <<arg, ret>>

Irq ==
  /\ Live /\ cpu.core = "Cpu" /\ nsig < MaxSignals
  /\ cpu' = Cpu_irq(cpu)
  /\ pre' = cpu /\ op' = "irq" /\ nsig' = nsig + 1
  /\ UNCHANGED <<booted, ninstr>>
  /\ Remember("irq")
  /\ UNCHANGED <<arg, ret>>

Nmi ==
  /\ Live /\ cpu.core = "Cpu" /\ nsig < MaxSignals
  /\ cpu' = Cpu_nmi(cpu)
  /\ pre' = cpu /\ op' = "nmi" /\ nsig' = nsig + 1
  /\ UNCHANGED <<booted, ninstr>>
  /\ Remember("nmi")
  /\ UNCHANGED <<arg, ret>>

\* clock() that fetches and executes an instruction
ClockFetch ==
  /\ Live /\ cpu.core = "Cpu" /\ cpu.cycles = 0 /\ ninstr < MaxInstr
  /\ cpu' = clock(cpu)
  /\ pre' = cpu /\ op' = "clock" /\ ninstr' = ninstr + 1
  /\ UNCHANGED <<booted, nsig>>
  /\ Remember("clock")
  /\ UNCHANGED <<arg, ret>>

\* clock() in the middle of an instruction
ClockTick ==
  /\ Live /\ cpu.core = "Cpu" /\ cpu.cycles > 0
  /\ cpu' = clock(cpu)
  /\ pre' = cpu /\ op' = "clock"
  /\ UNCHANGED <<booted, nsig, ninstr, trail>>
  /\ UNCHANGED <<arg, ret>>

\* clock() aborted by an arithmetic overflow, in a build that checks overflow
ClockPanic ==
  /\ Live /\ cpu.core = "Cpu" /\ ninstr < MaxInstr
  /\ clock_overflows(cpu)
  /\ pre' = cpu /\ op' = "panic"
  /\ UNCHANGED <<cpu, booted, nsig, ninstr, trail, arg, ret>>

ResetB ==
  /\ cpu.core = "CPU" /\ nsig < MaxSignals
  /\ cpu' = CPU_reset(cpu)
  /\ pre' = cpu /\ op' = "reset" /\ booted' = TRUE /\ nsig' = nsig + 1
  /\ UNCHANGED ninstr
  /\ Remember("reset")
  /\ UNCHANGED <<arg, ret>>

IrqB ==
  /\ cpu.core = "CPU" /\ nsig < MaxSignals
  /\ cpu' = CPU_irq(cpu)
  /\ pre' = cpu /\ op' = "irq" /\ nsig' = nsig + 1
  /\ UNCHANGED <<booted, ninstr>>
  /\ Remember("irq")
  /\ UNCHANGED <<arg, ret>>

NmiB ==
  /\ cpu.core = "CPU" /\ nsig < MaxSignals
  /\ cpu' = CPU_nmi(cpu)
  /\ pre' = cpu /\ op' = "nmi" /\ nsig' = nsig + 1
  /\ UNCHANGED <<booted, ninstr>>
  /\ Remember("nmi")
  /\ UNCHANGED <<arg, ret>>

Next ==
  \/ Reset \/ Irq \/ Nmi \/ ClockFetch \/ ClockTick \/ ClockPanic
  \/ ResetB \/ IrqB \/ NmiB

Spec == Init /\ [][Next]_vars

-----------------------------------------------------------------------------
(* Reset and interrupts *)

\* the last call was an irq()/nmi() that the rules say must be serviced
Serviced == op = "nmi" \/ (op = "irq" /\ ~FlagI(pre))

\* the vector the last irq()/nmi() call goes through
Vector == IF op = "nmi" THEN NMI_VECTOR ELSE IRQ_VECTOR

\* the stack cell k pushes below the stack pointer s
Below(s, k) == StackAddr(s + U8 - k)

\* the last call was a clock() that fetched and executed opcode o
Fetched(o) == op = "clock" /\ pre.cycles = 0 /\ Mem(pre, pre.pc) = o

\* C1: after reset() the PC holds the little-endian word stored at
\* 0xFFFC/0xFFFD, SP is 0xFD and the status byte is 0x24.
C1_ResetState ==
  op = "reset" =>
    /\ cpu.pc = word(Mem(cpu, 65533), Mem(cpu, 65532))
    /\ cpu.sp = 253
    /\ P(cpu) = 36

\* C2: irq() while I is set services nothing: PC, SP, A, X, Y, the flags, the
\* cycle count and all of memory are as they were before the call.
C2_MaskedIrqIgnored ==
  (op = "irq" /\ FlagI(pre)) =>
    /\ cpu.pc = pre.pc /\ cpu.sp = pre.sp
    /\ cpu.a = pre.a /\ cpu.x = pre.x /\ cpu.y = pre.y
    /\ P(cpu) = P(pre)
    /\ cpu.cycles = pre.cycles
    /\ Written(pre, cpu) = {}

C2_Witness ==
  /\ op = "irq" /\ FlagI(pre) /\ cpu.core = "Cpu"
  /\ pre.cycles > 0 /\ pre.sp = 253

\* C3: a serviced IRQ (I clear) or NMI entered with stack pointer s and
\* program counter p leaves the high byte of p at 0x0100+s, the low byte at
\* 0x0100+((s-1) mod 256), a status byte at 0x0100+((s-2) mod 256) and
\* SP = (s-3) mod 256, and writes no other memory location.
C3_InterruptStackLayout ==
  Serviced =>
    /\ Mem(cpu, Below(pre.sp, 0)) = hi8(pre.pc)
    /\ Mem(cpu, Below(pre.sp, 1)) = lo8(pre.pc)
    /\ BitAnd(Mem(cpu, Below(pre.sp, 2)), 203) = BitAnd(P(pre), 203)
    /\ cpu.sp = (pre.sp + U8 - 3) % U8
    /\ Written(pre, cpu) \subseteq {Below(pre.sp, k) : k \in 0..2}

C3_Witness ==
  /\ op = "nmi" /\ pre.sp = 1 /\ cpu.sp = 254
  /\ Written(pre, cpu) = {257, 256, 511}

\* C4: the status byte pushed by a serviced IRQ or NMI has B (bit 4) clear,
\* U (bit 5) set, and N, V, D, I, Z, C equal to the flags before the interrupt.
C4_InterruptPushedStatus ==
  Serviced =>
    LET pushed == Mem(cpu, Below(pre.sp, 2))
    IN /\ Bit(pushed, 4) = 0
       /\ Bit(pushed, 5) = 1
       /\ NVDIZC(pushed) = NVDIZC(P(pre))

\* C5: after a serviced IRQ or NMI the I flag is set and PC holds the word
\* stored at the vector, 0xFFFE for IRQ and 0xFFFA for NMI.
C5_InterruptEntry ==
  Serviced =>
    /\ FlagI(cpu)
    /\ cpu.pc = Word(cpu, Vector)

-----------------------------------------------------------------------------
(* BRK and the B and U bits *)

\* the return address left on the stack by a push at stack pointer s
PushedWord(c, s) == word(Mem(c, Below(s, 0)), Mem(c, Below(s, 1)))

\* C6: BRK executed through clock() with its opcode at address a pushes
\* a+2 (mod 65536), high byte first, and then loads PC from 0xFFFE/0xFFFF.
C6_BrkReturnAddress ==
  Fetched(BRK) =>
    /\ PushedWord(cpu, pre.sp) = (pre.pc + 2) % U16
    /\ cpu.pc = Word(cpu, 65534)

\* C7: the status byte pushed by BRK has B and U set and N, V, D, I, Z, C as
\* they were before the BRK; afterwards I is set and SP is three lower
\* (mod 256).
C7_BrkPushedStatus ==
  Fetched(BRK) =>
    LET pushed == Mem(cpu, Below(pre.sp, 2))
    IN /\ Bit(pushed, 4) = 1
       /\ Bit(pushed, 5) = 1
       /\ NVDIZC(pushed) = NVDIZC(P(pre))
       /\ FlagI(cpu)
       /\ cpu.sp = (pre.sp + U8 - 3) % U8

\* C8: once reset() has run, every status byte that PHP, BRK, IRQ or NMI
\* writes to the stack has bit 5 set.
C8_PushedStatusHasU ==
  booted =>
    /\ Fetched(PHP) => Bit(Mem(cpu, Below(pre.sp, 0)), 5) = 1
    /\ (Fetched(BRK) \/ Serviced) => Bit(Mem(cpu, Below(pre.sp, 2)), 5) = 1

\* C9: once reset() has run, the live status register has B clear and U set
\* whenever the CPU is between instructions, and PLP and RTI leave it so
\* whatever bits 4 and 5 of the popped byte are.
C9_LiveStatusBU ==
  booted =>
    /\ Bit(P(cpu), 4) = 0 /\ Bit(P(cpu), 5) = 1
    /\ (Fetched(PLP) \/ Fetched(RTI)) =>
         (Bit(P(cpu), 4) = 0 /\ Bit(P(cpu), 5) = 1)

\* C10: PHP immediately followed by PLP leaves N, V, D, I, Z, C and SP as
\* they were before the PHP, and the byte PHP pushed carries those six flags
\* with bits 4 and 5 set.
C10_PhpPlpRoundTrip ==
  ( /\ Fetched(PLP) /\ Len(trail) = 2
    /\ trail[1].op = "clock" /\ trail[1].opcode = PHP
    /\ trail[2].op = "clock" /\ trail[2].opcode = PLP ) =>
    /\ NVDIZC(P(cpu)) = NVDIZC(trail[1].p)
    /\ cpu.sp = trail[1].sp
    /\ Mem(cpu, Below(trail[1].sp, 0)) = BitOr(NVDIZC(trail[1].p), 48)

-----------------------------------------------------------------------------
(* The functions exercised one at a time: the host sets registers and memory, *)
(* then runs a short program on the clock-driven core or calls the public     *)
(* functions of the step-driven core directly.                                *)

PHA == 72
PLA == 104

\* the bytes, the stack pointers and the index values the host tries
SampleBytes == {0, 1, 127, 128, 254, 255}
StackPointers == {0, 1, 128, 254, 255}

\* memory around the stack with a different byte in every cell, so that a
\* read or a write at a wrong address shows: 0x00FF..0x0102, 0x01FE..0x0200
Marked ==
  (0 :> 16) @@ (255 :> 17) @@ (256 :> 18) @@ (257 :> 19) @@ (258 :> 20)
  @@ (384 :> 21) @@ (385 :> 22) @@ (510 :> 23) @@ (511 :> 24) @@ (512 :> 25)

\* bytes loaded at an address, and a program loaded at ProgBase
LoadAt(base, bytes) ==
  [k \in {base + i - 1 : i \in 1..Len(bytes)} |-> bytes[k - base + 1]]

Load(prog) == LoadAt(ProgBase, prog)

\* push then pop: PHA, PLA on the clock-driven core, with A the byte pushed
StackCasesA ==
  {[Cpu_new(Load(<<PHA, PLA>>) @@ Marked) EXCEPT !.pc = ProgBase, !.sp = s, !.a = b] :
     s \in StackPointers, b \in SampleBytes}

\* stack_push, stack_pop called on the step-driven core
StackCasesB ==
  {[CPU_new(Marked) EXCEPT !.sp = s] : s \in StackPointers}

JSR == 32
RTS == 96

\* where the host puts the JSR, and where the JSR goes
JsrAddresses == {ProgBase, ProgBase + 254}
JsrTargets == {36864, 33279, 768}

\* JSR target at address a, an RTS at the target
JsrCases ==
  {[Cpu_new(LoadAt(a, <<JSR, lo8(t), hi8(t)>>) @@ LoadAt(t, <<RTS>>) @@ Marked)
      EXCEPT !.pc = a, !.sp = s] :
     a \in JsrAddresses, t \in JsrTargets, s \in StackPointers}

JMP_IND == 108

\* pointers of JMP (indirect): at the end, at the start and inside a page
IndirectPointers == {12543, 12288, 12416}

PointerData ==
  (12543 :> 52) @@ (12544 :> 18) @@ (12288 :> 86) @@ (12289 :> 120)
  @@ (12416 :> 154) @@ (12417 :> 188)

\* JMP (ptr) on the clock-driven core; the operand at PC on the step-driven core
IndirectCases ==
  {[Cpu_new(Load(<<JMP_IND, lo8(ptr), hi8(ptr)>>) @@ PointerData) EXCEPT !.pc = ProgBase] :
     ptr \in IndirectPointers}
  \cup
  {[CPU_new(Load(<<lo8(ptr), hi8(ptr)>>) @@ PointerData) EXCEPT !.pc = ProgBase] :
     ptr \in IndirectPointers}

LDA_ZPX == 181
LDX_ZPY == 182

\* LDA zp,X and LDX zp,Y on the clock-driven core; the operand at PC on the
\* step-driven core, with X and Y different
ZeroPageCases ==
  {[Cpu_new(Load(<<LDA_ZPX, o>>) @@ Marked) EXCEPT !.pc = ProgBase, !.x = i] :
     o \in SampleBytes, i \in SampleBytes}
  \cup
  {[Cpu_new(Load(<<LDX_ZPY, o>>) @@ Marked) EXCEPT !.pc = ProgBase, !.y = i] :
     o \in SampleBytes, i \in SampleBytes}
  \cup
  {[CPU_new(Load(<<o>>) @@ Marked) EXCEPT !.pc = ProgBase, !.x = i, !.y = 255 - i] :
     o \in SampleBytes, i \in SampleBytes}

\* operand words and index values for the modes with a two-byte operand
ModeOperands == {<<255, 255>>, <<1, 0>>, <<254, 127>>}
ModeIndexes == {0, 1, 255}

\* the operand at PC, X and Y different, on either core
ModeCases ==
  {[Cpu_new(Load(w) @@ Marked) EXCEPT !.pc = ProgBase, !.x = i, !.y = 255 - i] :
     w \in ModeOperands, i \in ModeIndexes}
  \cup
  {[CPU_new(Load(w) @@ Marked) EXCEPT !.pc = ProgBase, !.x = i, !.y = 255 - i] :
     w \in ModeOperands, i \in ModeIndexes}

BranchOpcodes == {o \in 0..255 : INSTRUCTION_LIST[o + 1][1] \in BranchHandlers}

\* addresses of the branch: the following instruction in the same page, near
\* the end of it, and at the start of the next page
BranchAddresses == {ProgBase, ProgBase + 240, ProgBase + 254}

\* offsets +5, +127 and -5
BranchOffsets == {5, 127, 251}

\* N, V, Z and C all clear or all set
BranchFlags == {0, 195}

\* a branch of the clock-driven core about to be fetched
BranchCases ==
  {[Cpu_new(LoadAt(a, <<o, d>>)) EXCEPT !.pc = a, !.status = f] :
     o \in BranchOpcodes, a \in BranchAddresses, d \in BranchOffsets,
     f \in BranchFlags}

\* the offset of a branch at PC on the step-driven core: relative, then branch
RelativeCases ==
  {[CPU_new(LoadAt(a + 1, <<d>>)) EXCEPT !.pc = a + 1] :
     a \in BranchAddresses, d \in BranchOffsets}

IndexedModes == {"AbsoluteX", "AbsoluteY", "IndirectIndexed"}

Documented(o) == ~INSTRUCTION_LIST[o + 1][4]

\* the memory-read instructions in an indexed mode that can cross a page
ReadIndexedOpcodes ==
  {o \in 0..255 :
     /\ Documented(o) /\ get_addr_mode(o) \in IndexedModes
     /\ INSTRUCTION_LIST[o + 1][1] \in
          {"adc", "and", "cmp", "eor", "lda", "ldx", "ldy", "ora", "sbc"}}

\* the stores in those modes and the read-modify-write instructions in abs,X
WriteIndexedOpcodes ==
  {o \in 0..255 :
     /\ Documented(o)
     /\ \/ INSTRUCTION_LIST[o + 1][1] = "sta" /\ get_addr_mode(o) \in IndexedModes
        \/ /\ INSTRUCTION_LIST[o + 1][1] \in {"asl", "lsr", "rol", "ror", "inc", "dec"}
           /\ get_addr_mode(o) = "AbsoluteX"}

\* index 0x05 stays in the page of the base 0x12F0, index 0x20 leaves it
IndexValues == {5, 32}

\* an indexed instruction about to be fetched: the base address 0x12F0 is the
\* operand word, or the word at the zero-page pointer 0x40
IndexedCases ==
  {[Cpu_new(Load(IF get_addr_mode(o) = "IndirectIndexed"
                 THEN <<o, 64>> ELSE <<o, 240, 18>>)
            @@ LoadAt(64, <<240, 18>>))
      EXCEPT !.pc = ProgBase, !.x = i, !.y = i] :
     o \in ReadIndexedOpcodes \cup WriteIndexedOpcodes, i \in IndexValues}

LDA_IMM == 169
BEQ == 240

\* LDA #1 followed by a BEQ that is not taken
LdaBeqCases ==
  {[Cpu_new(Load(<<LDA_IMM, 1, BEQ, 2>>)) EXCEPT !.pc = ProgBase]}

UnitCases ==
  StackCasesA \cup StackCasesB \cup JsrCases \cup IndirectCases \cup ZeroPageCases
  \cup ModeCases \cup BranchCases \cup RelativeCases \cup IndexedCases
  \cup LdaBeqCases

UnitInit ==
  /\ cpu \in UnitCases
  /\ pre = cpu
  /\ op = "new"
  /\ booted = FALSE
  /\ nsig = 0
  /\ ninstr = 0
  /\ trail = <<>>
  /\ arg = 0
  /\ ret = 0

\* a function is called directly: the CPU it leaves, the argument passed and
\* the value returned
Called(kind, c, a, r) ==
  /\ cpu' = c /\ arg' = a /\ ret' = r
  /\ pre' = cpu /\ op' = kind
  /\ Remember(kind)
  /\ UNCHANGED booted

\* the host exercises the stack on a CPU on which it has resolved no mode
StackPush ==
  /\ cpu.core = "CPU" /\ nsig = 0 /\ ninstr < MaxInstr
  /\ \E b \in SampleBytes : Called("stack_push", stack_push(cpu, b), b, 0)
  /\ ninstr' = ninstr + 1 /\ UNCHANGED nsig

StackPop ==
  /\ cpu.core = "CPU" /\ nsig = 0 /\ ninstr < MaxInstr
  /\ Called("stack_pop", stack_pop(cpu).cpu, arg, stack_pop(cpu).value)
  /\ ninstr' = ninstr + 1 /\ UNCHANGED nsig

\* an addressing mode of the step-driven core is resolved, before any other
\* call: the value returned is <<addr, cycles>>
Resolve ==
  /\ cpu.core = "CPU" /\ ninstr = 0 /\ nsig < MaxResolve
  /\ \E mode \in AddressingModes :
       LET r == addressing_mode(mode, cpu)
       IN Called(mode, r.cpu, 0, <<r.addr, r.cycles>>)
  /\ nsig' = nsig + 1 /\ UNCHANGED ninstr

\* branch is called with the address that relative has just returned
Branch ==
  /\ cpu.core = "CPU" /\ op = "relative" /\ ninstr < MaxInstr
  /\ LET r == branch(cpu, ret[1])
     IN Called("branch", r.cpu, ret[1], r.value)
  /\ ninstr' = ninstr + 1 /\ UNCHANGED nsig

ExecuteModes ==
  {"Absolute", "AbsoluteX", "AbsoluteY", "Immediate", "Implied", "Indirect",
   "IndexedIndirect", "IndirectIndexed", "Relative", "ZeroPage", "ZeroPageX",
   "ZeroPageY"}

\* an addressing mode of the clock-driven core is resolved before the first
\* instruction: the value returned is the extra cycle
Execute ==
  /\ Live /\ cpu.core = "Cpu" /\ ninstr = 0 /\ cpu.cycles = 0 /\ nsig < MaxResolve
  /\ \E mode \in ExecuteModes :
       LET r == execute_addr_mode(cpu, mode)
       IN Called(mode, r.cpu, 0, r.ret)
  /\ nsig' = nsig + 1 /\ UNCHANGED ninstr

\* the resolution aborted by an arithmetic overflow, in a build that checks
\* overflow: execute_addr_mode has stored the mode, execute has changed nothing
ExecutePanic ==
  /\ Live /\ cpu.core = "Cpu" /\ ninstr = 0 /\ cpu.cycles = 0 /\ nsig < MaxResolve
  /\ \E mode \in ExecuteModes :
       /\ execute_overflows(mode, cpu)
       /\ Called("execute_panic", [cpu EXCEPT !.addr_mode = mode], 0, 0)
  /\ nsig' = nsig + 1 /\ UNCHANGED ninstr

UnitNext ==
  \/ ClockFetch \/ ClockTick \/ ClockPanic
  \/ Execute \/ ExecutePanic
  \/ StackPush \/ StackPop \/ Resolve \/ Branch

UnitSpec == UnitInit /\ [][UnitNext]_vars

\* C11: a push of byte b at stack pointer s writes b at 0x0100+s and nowhere
\* else, and leaves SP = (s-1) mod 256; a pop reads 0x0100+((SP+1) mod 256);
\* the pop that follows a push returns b and leaves SP = s again.  Checked for
\* push/pop of the clock-driven core (through PHA, PLA) and for
\* stack_push/stack_pop of the step-driven core, with s = 0x00 and 0xFF among
\* the stack pointers.
C11_StackRoundTrip ==
  /\ (Fetched(PHA) \/ op = "stack_push") =>
       LET b == IF op = "stack_push" THEN arg ELSE pre.a
       IN /\ Mem(cpu, 256 + pre.sp) = b
          /\ Written(pre, cpu) \subseteq {256 + pre.sp}
          /\ cpu.sp = (pre.sp + U8 - 1) % U8
  /\ (Fetched(PLA) \/ op = "stack_pop") =>
       LET v == IF op = "stack_pop" THEN ret ELSE cpu.a
       IN /\ v = Mem(pre, 256 + ((pre.sp + 1) % U8))
          /\ cpu.sp = (pre.sp + 1) % U8
          /\ Written(pre, cpu) = {}
  /\ ( /\ Len(trail) = 2
       /\ \/ Fetched(PLA) /\ trail[1].op = "clock" /\ trail[1].opcode = PHA
          \/ op = "stack_pop" /\ trail[1].op = "stack_push" ) =>
       /\ cpu.sp = trail[1].sp
       /\ IF op = "stack_pop" THEN ret = arg ELSE cpu.a = pre.a

C11_Witness ==
  /\ op = "stack_pop" /\ Len(trail) = 2 /\ trail[1].op = "stack_push"
  /\ trail[1].sp = 0 /\ pre.sp = 255 /\ cpu.sp = 0
  /\ arg = 254 /\ ret = 254

\* C12: a JSR whose opcode is at address a pushes a+2, high byte then low
\* byte, and sets PC to its target; the RTS executed next sets PC = a+3 and
\* puts SP back to its value before the JSR.
C12_JsrRtsRoundTrip ==
  /\ Fetched(JSR) =>
       /\ Mem(cpu, Below(pre.sp, 0)) = hi8(pre.pc + 2)
       /\ Mem(cpu, Below(pre.sp, 1)) = lo8(pre.pc + 2)
       /\ cpu.sp = (pre.sp + U8 - 2) % U8
       /\ cpu.pc = word(Mem(pre, pre.pc + 2), Mem(pre, pre.pc + 1))
  /\ ( /\ Fetched(RTS) /\ Len(trail) = 2
       /\ trail[1].op = "clock" /\ trail[1].opcode = JSR ) =>
       /\ cpu.pc = trail[1].pc + 3
       /\ cpu.sp = trail[1].sp

C12_Witness ==
  /\ Fetched(RTS) /\ Len(trail) = 2
  /\ trail[1].op = "clock" /\ trail[1].opcode = JSR
  /\ trail[1].pc = ProgBase + 254 /\ trail[1].sp = 0
  /\ pre.pc = 33279 /\ cpu.pc = ProgBase + 257

IndirectTarget(c, ptr) ==
  word(Mem(c, IF ptr % 256 = 255 THEN ptr - 255 ELSE ptr + 1), Mem(c, ptr))

\* C14: JMP (indirect) with pointer ptr reads the target low byte from ptr
\* and the high byte from ptr & 0xFF00 when the low byte of ptr is 0xFF, from
\* ptr+1 otherwise; PC becomes that target (clock-driven core), and the
\* indirect mode of the step-driven core returns that target as the address.
C14_IndirectJump ==
  /\ Fetched(JMP_IND) => cpu.pc = IndirectTarget(pre, Word(pre, pre.pc + 1))
  /\ op = "indirect" => ret[1] = IndirectTarget(pre, Word(pre, pre.pc))

C14_Witness ==
  /\ Fetched(JMP_IND) /\ Word(pre, pre.pc + 1) = 12543
  /\ cpu.pc = 22068

\* the last call was a clock() that fetched an opcode of the given mode
FetchedMode(mode) ==
  op = "clock" /\ pre.cycles = 0 /\ get_addr_mode(Mem(pre, pre.pc)) = mode

\* C15: for zero-page,X and zero-page,Y addressing the effective address is
\* (operand + index) mod 256, whatever the operand byte and the index, so its
\* high byte is 0x00.
C15_ZeroPageIndexedWraps ==
  /\ FetchedMode("ZeroPageX") => cpu.addr_abs = (Mem(pre, pre.pc + 1) + pre.x) % 256
  /\ FetchedMode("ZeroPageY") => cpu.addr_abs = (Mem(pre, pre.pc + 1) + pre.y) % 256
  /\ op = "zero_page_x" => ret[1] = (Mem(pre, pre.pc) + pre.x) % 256
  /\ op = "zero_page_y" => ret[1] = (Mem(pre, pre.pc) + pre.y) % 256

C15_Witness ==
  /\ op = "zero_page_x" /\ Mem(pre, pre.pc) = 255 /\ pre.x = 1 /\ ret[1] = 0

\* operand widths of the modes of the clock-driven core
ExecuteWidth ==
  [mode \in ExecuteModes |->
     IF mode = "Implied" THEN 0
     ELSE IF mode \in AbsoluteModes THEN 2
     ELSE 1]

\* operand widths of the modes of the step-driven core
ResolveWidth ==
  [mode \in AddressingModes |->
     IF mode \in {"accumulator", "implied"} THEN 0
     ELSE IF mode \in {"absolute", "absolute_x", "absolute_y", "indirect"} THEN 2
     ELSE 1]

\* C16: resolving an addressing mode returns with PC advanced by exactly the
\* operand width of the mode (0, 1 or 2), whatever the operand bytes and the
\* index registers.
C16_ModeAdvancesPC ==
  /\ \A mode \in ExecuteModes :
       (op = mode \/ (op = "execute_panic" /\ cpu.addr_mode = mode)) =>
         (op = mode /\ cpu.pc = pre.pc + ExecuteWidth[mode])
  /\ \A mode \in AddressingModes :
       op = mode => cpu.pc = pre.pc + ResolveWidth[mode]

\* a branch opcode is at the PC, with room for its operand, when clock() is
\* called between two instructions
AtBranch ==
  /\ op \in {"clock", "panic"} /\ pre.core = "Cpu" /\ pre.cycles = 0
  /\ Mem(pre, pre.pc) \in BranchOpcodes /\ pre.pc + 2 < U16

\* the condition each branch tests, on the flags before the instruction
Taken ==
  LET function == INSTRUCTION_LIST[Mem(pre, pre.pc) + 1][1]
      flag == CASE function \in {"bcc", "bcs"} -> BitAnd(P(pre), 1) # 0
                [] function \in {"beq", "bne"} -> BitAnd(P(pre), 2) # 0
                [] function \in {"bvc", "bvs"} -> BitAnd(P(pre), 64) # 0
                [] function \in {"bmi", "bpl"} -> BitAnd(P(pre), 128) # 0
  IN IF function \in {"bcs", "beq", "bvs", "bmi"} THEN flag ELSE ~flag

signed8(o) == IF o >= 128 THEN o - 256 ELSE o

\* the target of the branch at pre.pc
BranchTarget == (pre.pc + 2 + signed8(Mem(pre, pre.pc + 1)) + U16) % U16

Page(address) == address \div 256

\* C17: a branch that is not taken costs 2 cycles; a taken branch costs 3,
\* and 4 exactly when its target is in another page than the instruction that
\* follows the branch.  On the step-driven core, branch returns the penalty 1,
\* or 2 when the address is in another page than the PC it replaces.
C17_BranchCycles ==
  /\ AtBranch =>
       /\ op = "clock"
       /\ cpu.cycles + 1 =
            IF ~Taken THEN 2
            ELSE IF Page(BranchTarget) # Page(pre.pc + 2) THEN 4 ELSE 3
  /\ op = "branch" => ret = IF Page(arg) # Page(pre.pc) THEN 2 ELSE 1

\* C18: a taken branch at address a with offset byte o leaves
\* PC = (a + 2 + signed8(o)) mod 65536, for o negative as well as positive; a
\* branch not taken leaves PC = a + 2.  On the step-driven core relative
\* returns that target, and branch stores it in the PC.
C18_BranchTarget ==
  /\ AtBranch =>
       /\ op = "clock"
       /\ cpu.pc = IF Taken THEN BranchTarget ELSE pre.pc + 2
  /\ op = "relative" =>
       /\ ret[1] = (pre.pc + 1 + signed8(Mem(pre, pre.pc)) + U16) % U16
       /\ cpu.pc = pre.pc + 1
  /\ op = "branch" => cpu.pc = arg

\* the base address and the index of the indexed instruction at pre.pc
IndexBase ==
  IF get_addr_mode(Mem(pre, pre.pc)) = "IndirectIndexed"
  THEN LET zp == Mem(pre, pre.pc + 1)
       IN word(Mem(pre, (zp + 1) % 256), Mem(pre, zp))
  ELSE Word(pre, pre.pc + 1)

IndexReg == IF get_addr_mode(Mem(pre, pre.pc)) = "AbsoluteX" THEN pre.x ELSE pre.y

PageCrossed == Page(IndexBase) # Page((IndexBase + IndexReg) % U16)

\* the cycles clock() has charged for the instruction it has just fetched
Charged == cpu.cycles + 1

\* C19: ADC, AND, CMP, EOR, LDA, LDX, LDY, ORA and SBC in absolute,X,
\* absolute,Y or (zp),Y mode cost the base cycles of the table when base and
\* effective address are in the same page, and one more when they are not.
C19_ReadPageCross ==
  \A o \in ReadIndexedOpcodes :
    Fetched(o) => Charged = get_cycles(o) + (IF PageCrossed THEN 1 ELSE 0)

\* C20: STA in absolute,X, absolute,Y or (zp),Y mode and ASL, LSR, ROL, ROR,
\* INC, DEC in absolute,X mode cost the base cycles of the table whether or not
\* the indexed address crosses a page.
C20_WriteNoPageCross ==
  \A o \in WriteIndexedOpcodes : Fetched(o) => Charged = get_cycles(o)

\* C21: an instruction with no page crossing and no taken branch is charged
\* exactly the base cycles of the table: LDA immediate costs 2, the BEQ not
\* taken that follows it costs 2.
C21_BaseCycles ==
  /\ Fetched(LDA_IMM) => Charged = 2
  /\ (Fetched(BEQ) /\ ~Taken) => Charged = 2
  /\ \A o \in 0..255 :
       ( /\ Fetched(o) /\ Documented(o)
         /\ get_addr_mode(o) \notin IndexedModes
         /\ INSTRUCTION_LIST[o + 1][1] \notin BranchHandlers ) =>
         Charged = get_cycles(o)

\* C22: servicing an IRQ or an NMI adds 7 to the cycle count, and reset adds
\* 8, on top of what was counted before.
C22_SignalCycles ==
  /\ Serviced => cpu.cycles = pre.cycles + 7
  /\ op = "reset" => cpu.cycles = pre.cycles + 8

-----------------------------------------------------------------------------
(* Arithmetic, compare, shift and rotate instructions of the clock-driven
   core, on each variant *)

Variants == {"CMOS", "NES", "NMOS"}

ADC_IMM == 105
SBC_IMM == 233
CMP_IMM == 201
CPX_IMM == 224
CPY_IMM == 192
ASL_A == 10
ASL_ZP == 6
LSR_A == 74
LSR_ZP == 70
ROL_A == 42
ROL_ZP == 38
ROR_A == 106
ROR_ZP == 102

\* register and operand values: the ends of the range, the sign boundary, the
\* nibble boundary, and the BCD operands of the decimal tests
AluBytes == {0, 1, 9, 15, 16, 21, 39, 64, 80, 127, 128, 153, 255}

\* N, V and Z clear or set beforehand, with each of C and D
AluFlags == {nvz + d + cin : nvz \in {0, 194}, d \in {0, 8}, cin \in {0, 1}}

\* ADC #M and SBC #M with A, the flags and the variant set by the host
ArithCases ==
  {[Cpu_new(Load(<<o, m>>))
      EXCEPT !.pc = ProgBase, !.a = r, !.status = f, !.variant = v] :
     o \in {ADC_IMM, SBC_IMM}, r \in AluBytes, m \in AluBytes, f \in AluFlags,
     v \in Variants}

\* CMP, CPX, CPY #M: the register compared holds r, the two others r + 1, r + 2
CompareCases ==
  {[Cpu_new(Load(<<o, m>>))
      EXCEPT !.pc = ProgBase, !.status = f,
             !.a = (r + (IF o = CMP_IMM THEN 0 ELSE IF o = CPX_IMM THEN 1 ELSE 2)) % 256,
             !.x = (r + (IF o = CPX_IMM THEN 0 ELSE IF o = CPY_IMM THEN 1 ELSE 2)) % 256,
             !.y = (r + (IF o = CPY_IMM THEN 0 ELSE IF o = CMP_IMM THEN 1 ELSE 2)) % 256] :
     o \in {CMP_IMM, CPX_IMM, CPY_IMM}, r \in AluBytes, m \in AluBytes,
     f \in {0, 195}}

\* shifts and rotates of A, and of the byte at 0x10 with A different from it
ShiftCases ==
  {[Cpu_new(Load(<<o>>))
      EXCEPT !.pc = ProgBase, !.a = m, !.status = f, !.variant = v] :
     o \in {ASL_A, LSR_A, ROL_A, ROR_A}, m \in AluBytes, f \in {0, 1, 194, 195},
     v \in Variants}
  \cup
  {[Cpu_new(Load(<<o, 16>>) @@ LoadAt(16, <<m>>))
      EXCEPT !.pc = ProgBase, !.a = 255 - m, !.status = f, !.variant = v] :
     o \in {ASL_ZP, LSR_ZP, ROL_ZP, ROR_ZP}, m \in AluBytes, f \in {0, 1, 194, 195},
     v \in Variants}

TAX == 170
TAY == 168
TSX == 186
TXA == 138
TXS == 154
TYA == 152

\* a register transfer with A, X, Y and SP all different beforehand, and with
\* N and Z each clear or set
TransferCases ==
  {[Cpu_new(Load(<<o>>))
      EXCEPT !.pc = ProgBase, !.status = f, !.a = (r + 85) % 256, !.x = r,
             !.y = (r + 170) % 256, !.sp = (r + 3) % 256] :
     o \in {TAX, TAY, TSX, TXA, TXS, TYA}, r \in AluBytes \cup {45, 83, 86, 125, 171, 253},
     f \in {0, 2, 128, 130, 65}}

set_illegal_opcodes(c, value) == [c EXCEPT !.enable_illegal_opcodes = value]

KIL == 2
LAX_ZP == 167
LAX_IMM == 171

\* an undocumented opcode at PC with the illegal opcodes disabled (the default)
\* and enabled: KIL followed by LDA #m, LAX $10 with m at 0x10, and LAX #m
IllegalCases ==
  {set_illegal_opcodes(
     [Cpu_new(IF o = KIL THEN Load(<<o, LDA_IMM, m>>)
              ELSE IF o = LAX_ZP THEN Load(<<o, 16>>) @@ LoadAt(16, <<m>>)
              ELSE Load(<<o, m>>))
        EXCEPT !.pc = ProgBase, !.status = f, !.a = 255 - m, !.x = (m + 85) % 256], e) :
     o \in {KIL, LAX_ZP, LAX_IMM}, m \in AluBytes, f \in {0, 130}, e \in BOOLEAN}

AluCases ==
  ArithCases \cup CompareCases \cup ShiftCases \cup TransferCases \cup IllegalCases

AluInit ==
  /\ cpu \in AluCases
  /\ pre = cpu
  /\ op = "new"
  /\ booted = FALSE
  /\ nsig = 0
  /\ ninstr = 0
  /\ trail = <<>>
  /\ arg = 0
  /\ ret = 0

AluNext == ClockFetch \/ ClockTick \/ ClockPanic

AluSpec == AluInit /\ [][AluNext]_vars

\* the operand of the instruction at pre.pc, the carry and the decimal flag
\* before it
OperandM == Mem(pre, pre.pc + 1)
CarryIn == IF get_flag(pre, Carry) THEN 1 ELSE 0
DecimalOn == get_flag(pre, Decimal)

\* C23: with D = 0, on every variant, ADC sets A' = (A + M + C) mod 256,
\* C' = (A + M + C > 255), V' = ((~(A xor M) and (A xor A')) and 0x80) # 0,
\* N' = bit 7 of A' and Z' = (A' = 0); flags are cleared as well as set.
C23_AdcBinary ==
  (Fetched(ADC_IMM) /\ ~DecimalOn) =>
    LET sum == pre.a + OperandM + CarryIn
        result == sum % 256
    IN /\ cpu.a = result
       /\ get_flag(cpu, Carry) = (sum > 255)
       /\ get_flag(cpu, Overflow) =
            (BitAnd(BitAnd(BitNot8(BitXor(pre.a, OperandM)), BitXor(pre.a, result)), 128) # 0)
       /\ get_flag(cpu, Negative) = (result >= 128)
       /\ get_flag(cpu, Zero) = (result = 0)

\* C24: with D = 0, on every variant, SBC computes diff = A - M - (1 - C) and
\* sets A' = diff mod 256, C' = (diff >= 0),
\* V' = ((A xor M) and (A xor A') and 0x80) # 0, N' = bit 7 of A', Z' = (A' = 0).
C24_SbcBinary ==
  (Fetched(SBC_IMM) /\ ~DecimalOn) =>
    LET diff == pre.a - OperandM - (1 - CarryIn)
        result == (diff + 256) % 256
    IN /\ cpu.a = result
       /\ get_flag(cpu, Carry) = (diff >= 0)
       /\ get_flag(cpu, Overflow) =
            (BitAnd(BitAnd(BitXor(pre.a, OperandM), BitXor(pre.a, result)), 128) # 0)
       /\ get_flag(cpu, Negative) = (result >= 128)
       /\ get_flag(cpu, Zero) = (result = 0)

\* a byte whose two nibbles are decimal digits, its value, and the encoding
\* of a value below 100
ValidBcd(b) == b \div 16 <= 9 /\ b % 16 <= 9
Decimal2(b) == (b \div 16) * 10 + (b % 16)
Bcd(n) == (n \div 10) * 16 + (n % 10)

\* C25: with D = 1 on a variant other than NES, for valid BCD operands, ADC
\* yields the BCD encoding of (a + m + C) mod 100 with C' = (a + m + C > 99),
\* and SBC yields the BCD encoding of (a - m - (1 - C)) mod 100 with
\* C' = (no borrow), a and m being the decimal values of A and M.
C25_DecimalMode ==
  ( /\ op \in {"clock", "panic"} /\ pre.cycles = 0
    /\ Mem(pre, pre.pc) \in {ADC_IMM, SBC_IMM}
    /\ DecimalOn /\ pre.variant # "NES"
    /\ ValidBcd(pre.a) /\ ValidBcd(OperandM) ) =>
    LET sum == Decimal2(pre.a) + Decimal2(OperandM) + CarryIn
        diff == Decimal2(pre.a) - Decimal2(OperandM) - (1 - CarryIn)
    IN /\ op = "clock"
       /\ IF Mem(pre, pre.pc) = ADC_IMM
          THEN cpu.a = Bcd(sum % 100) /\ get_flag(cpu, Carry) = (sum > 99)
          ELSE cpu.a = Bcd((diff + 100) % 100) /\ get_flag(cpu, Carry) = (diff >= 0)

\* A, the flags N, V, Z, C and the cycles of two CPUs are the same
SameOutcome(c1, c2) ==
  /\ c1.a = c2.a /\ c1.cycles = c2.cycles
  /\ \A flag \in {Negative, Overflow, Zero, Carry} : get_flag(c1, flag) = get_flag(c2, flag)

\* the CPU that differs from pre in the D flag only, after the same clock()
DecimalTwin == clock(set_flag(pre, Decimal, ~DecimalOn))

Compared ==
  IF Mem(pre, pre.pc) = CMP_IMM THEN pre.a
  ELSE IF Mem(pre, pre.pc) = CPX_IMM THEN pre.x ELSE pre.y

\* C27: CMP, CPX and CPY with register value r and operand M set C = (r >= M),
\* Z = (r = M) and N = bit 7 of ((r - M) mod 256), and change neither A, X, Y,
\* V nor memory.
C27_Compare ==
  (Fetched(CMP_IMM) \/ Fetched(CPX_IMM) \/ Fetched(CPY_IMM)) =>
    /\ get_flag(cpu, Carry) = (Compared >= OperandM)
    /\ get_flag(cpu, Zero) = (Compared = OperandM)
    /\ get_flag(cpu, Negative) = ((Compared - OperandM + 256) % 256 >= 128)
    /\ cpu.a = pre.a /\ cpu.x = pre.x /\ cpu.y = pre.y
    /\ get_flag(cpu, Overflow) = get_flag(pre, Overflow)
    /\ Written(pre, cpu) = {}

\* CPX #$80 with X = 0x80 and N, V, Z, C set beforehand: C and Z stay set, N
\* is cleared, V stays set
C27_Witness ==
  /\ Fetched(CPX_IMM) /\ pre.x = 128 /\ OperandM = 128 /\ pre.status = 195
  /\ cpu.status = 67

\* the operand of a shift or rotate at pre.pc: A in accumulator mode, the
\* byte at the zero-page address otherwise; and where its result is found
Accumulator == get_addr_mode(Mem(pre, pre.pc)) = "Implied"
ShiftOperand == IF Accumulator THEN pre.a ELSE Mem(pre, OperandM)
ShiftResult == IF Accumulator THEN cpu.a ELSE Mem(cpu, OperandM)

\* C28: LSR with operand M stores M >> 1, sets C to bit 0 of M, N = 0 and
\* Z = (M >> 1 = 0).
C28_Lsr ==
  (Fetched(LSR_A) \/ Fetched(LSR_ZP)) =>
    /\ ShiftResult = ShiftOperand \div 2
    /\ get_flag(cpu, Carry) = (ShiftOperand % 2 = 1)
    /\ ~get_flag(cpu, Negative)
    /\ get_flag(cpu, Zero) = (ShiftOperand \div 2 = 0)

\* C29: ROL stores ((M << 1) | Cin) mod 256 with Cout = bit 7 of M; ROR, on a
\* variant other than NMOS, stores (Cin << 7) | (M >> 1) with Cout = bit 0 of
\* M; in accumulator and in memory mode, with N and Z from the stored result.
C29_Rotate ==
  /\ (Fetched(ROL_A) \/ Fetched(ROL_ZP)) =>
       /\ ShiftResult = (ShiftOperand * 2 + CarryIn) % 256
       /\ get_flag(cpu, Carry) = (ShiftOperand >= 128)
  /\ ((Fetched(ROR_A) \/ Fetched(ROR_ZP)) /\ pre.variant # "NMOS") =>
       /\ ShiftResult = CarryIn * 128 + (ShiftOperand \div 2)
       /\ get_flag(cpu, Carry) = (ShiftOperand % 2 = 1)
  /\ ( \/ Fetched(ROL_A) \/ Fetched(ROL_ZP)
       \/ (Fetched(ROR_A) \/ Fetched(ROR_ZP)) /\ pre.variant # "NMOS" ) =>
       /\ get_flag(cpu, Negative) = (ShiftResult >= 128)
       /\ get_flag(cpu, Zero) = (ShiftResult = 0)

\* ROL of the byte 0x80 in memory with C set: the result is 0x01 with C set;
\* and ROR of A = 0x01 with C set: the result is 0x80 with C set
C29_Witness ==
  \/ /\ Fetched(ROL_ZP) /\ ShiftOperand = 128 /\ CarryIn = 1
     /\ ShiftResult = 1 /\ get_flag(cpu, Carry)
  \/ /\ Fetched(ROR_A) /\ pre.variant = "CMOS" /\ ShiftOperand = 1 /\ CarryIn = 1
     /\ ShiftResult = 128 /\ get_flag(cpu, Carry)

\* C30: ASL, LSR, ROL and ROR in accumulator mode, on every variant, write
\* their result to A and nothing to the bus; in the other modes A is unchanged
\* and the result is written to the effective address.
C30_AccumulatorMode ==
  ( /\ op = "clock" /\ pre.cycles = 0
    /\ Mem(pre, pre.pc) \in {ASL_A, LSR_A, ROL_A, ROR_A, ASL_ZP, LSR_ZP, ROL_ZP, ROR_ZP} ) =>
    IF Accumulator
    THEN Written(pre, cpu) = {}
    ELSE cpu.a = pre.a /\ Written(pre, cpu) \subseteq {OperandM}

\* the register a transfer reads and the register it writes
TransferSource(o, c) ==
  CASE o \in {TAX, TAY} -> c.a
    [] o \in {TXA, TXS} -> c.x
    [] o = TYA -> c.y
    [] o = TSX -> c.sp

TransferTarget(o, c) ==
  CASE o \in {TAX, TSX} -> c.x
    [] o \in {TXA, TYA} -> c.a
    [] o = TAY -> c.y
    [] o = TXS -> c.sp

\* the registers a transfer does not write
TransferFrame(o, c) ==
  <<IF o \in {TXA, TYA} THEN 0 ELSE c.a, IF o \in {TAX, TSX} THEN 0 ELSE c.x,
    IF o = TAY THEN 0 ELSE c.y, IF o = TXS THEN 0 ELSE c.sp>>

C32_IllegalOpcodePolicy ==
  ~( /\ op = "clock" /\ pre.cycles = 0
     /\ ~Documented(Mem(pre, pre.pc))
     /\ ~pre.enable_illegal_opcodes )

\* the handler of the instruction a CPU fetched last
LastHandler(c) == INSTRUCTION_LIST[c.opcode + 1][1]

\* C33: once KIL has been executed (illegal opcodes enabled), no later clock()
\* fetches an instruction or changes PC, a register, the flags or memory.
C33_KilHalts ==
  (op = "clock" /\ LastHandler(pre) = "kil" /\ pre.enable_illegal_opcodes) =>
    /\ pre.cycles # 0
    /\ <<cpu.pc, cpu.a, cpu.x, cpu.y, cpu.sp, P(cpu)>>
         = <<pre.pc, pre.a, pre.x, pre.y, pre.sp, P(pre)>>
    /\ Written(pre, cpu) = {}

\* C40: with the illegal opcodes enabled LAX loads its operand byte into A and
\* into X, and sets N to bit 7 and Z to the zero test of that byte.
C40_Lax ==
  ((Fetched(LAX_ZP) \/ Fetched(LAX_IMM)) /\ pre.enable_illegal_opcodes) =>
    LET m == IF Fetched(LAX_ZP) THEN Mem(pre, OperandM) ELSE OperandM
    IN /\ cpu.a = m
       /\ cpu.x = m
       /\ get_flag(cpu, Negative) = (m >= 128)
       /\ get_flag(cpu, Zero) = (m = 0)

\* the 16-bit pointer held in the zero page at p, its high byte at (p+1) mod 256
ZeroPageWord(c, p) == word(Mem(c, (p + 1) % 256), Mem(c, p % 256))

\* C35: for (zp,X) addressing with operand o the effective address has its low
\* byte read at (o + X) mod 256 and its high byte at (o + X + 1) mod 256: both
\* pointer bytes come from the zero page, on either core.
C35_IndexedIndirectPointer ==
  /\ op = "IndexedIndirect" =>
       cpu.addr_abs = ZeroPageWord(pre, Mem(pre, pre.pc) + pre.x)
  /\ FetchedMode("IndexedIndirect") =>
       cpu.addr_abs = ZeroPageWord(pre, Mem(pre, pre.pc + 1) + pre.x)
  /\ op = "indirect_x" =>
       ret[1] = ZeroPageWord(pre, Mem(pre, pre.pc) + pre.x)

\* C36: for (zp),Y addressing with operand o the base is the word with its low
\* byte at o and its high byte at (o + 1) mod 256, the effective address is
\* (base + Y) mod 65536, and a page crossing is reported exactly when the high
\* bytes of base and effective address differ, on either core.
C36_IndirectIndexedAddress ==
  LET base == ZeroPageWord(pre, Mem(pre, pre.pc))
      ea == (base + pre.y) % 65536
      crossed == IF hi8(base) # hi8(ea) THEN 1 ELSE 0
  IN /\ op = "IndirectIndexed" => (cpu.addr_abs = ea /\ ret = crossed)
     /\ FetchedMode("IndirectIndexed") =>
          cpu.addr_abs = (ZeroPageWord(pre, Mem(pre, pre.pc + 1)) + pre.y) % 65536
     /\ op = "indirect_y" => ret = <<ea, crossed>>

-----------------------------------------------------------------------------
(* The step-driven core run by a host that steps it and raises interrupts *)

CLI == 88
NOP == 234

\* the opcodes of the programs: CLI, NOP, and two bytes without a table entry
StepOpcodes == {CLI, NOP, KIL, 255}

\* a program of three of these at ProgBase, with I set or clear and the stack
\* pointer at the top or about to wrap
StepCases ==
  {[CPU_new(Image(<<o1, o2, o3>>, 0))
      EXCEPT !.pc = ProgBase, !.sp = s, !.status = from_byte(f)] :
     o1 \in StepOpcodes, o2 \in StepOpcodes, o3 \in StepOpcodes,
     s \in {253, 1}, f \in {32, 36, 231}}

StepInit ==
  /\ cpu \in StepCases
  /\ pre = cpu
  /\ op = "new"
  /\ booted = FALSE
  /\ nsig = 0
  /\ ninstr = 0
  /\ trail = <<>>
  /\ arg = 0
  /\ ret = 0

\* step() on an opcode of the table whose handler is modelled
StepB ==
  /\ Live /\ cpu.core = "CPU" /\ ninstr < MaxInstr
  /\ Mem(cpu, cpu.pc) \in StepOpcodes /\ ~step_unimplemented(cpu)
  /\ Called("step", step(cpu), 0, 0)
  /\ ninstr' = ninstr + 1 /\ UNCHANGED nsig

\* step() on an opcode without a table entry: the panic of
\* unimplemented_instruction, after fetch_byte; ret is what the message reports
StepPanicB ==
  /\ Live /\ cpu.core = "CPU" /\ ninstr < MaxInstr
  /\ step_unimplemented(cpu)
  /\ LET f == fetch_byte(cpu)
     IN Called("step_panic", f.cpu, 0, unimplemented_instruction(f.cpu, f.value))
  /\ ninstr' = ninstr + 1 /\ UNCHANGED nsig

StepNext == ResetB \/ IrqB \/ NmiB \/ StepB \/ StepPanicB

StepSpec == StepInit /\ [][StepNext]_vars

\* irq() was called with I set and dropped, and the CLI stepped since has
\* cleared I: an instruction boundary with I = 0 and the request outstanding
IrqOutstanding ==
  /\ Len(trail) = 2
  /\ trail[1].op = "irq" /\ BitAnd(trail[1].p, 4) # 0
  /\ trail[2].op = "step" /\ trail[2].opcode = CLI
  /\ op = "step" /\ ~FlagI(cpu)

\* C34: an IRQ requested while I = 1 is not lost: the first step() at an
\* instruction boundary with I = 0 services it (return address and status
\* pushed, I set, PC loaded from 0xFFFE/0xFFFF) instead of the next instruction.
C34_IrqNotLost ==
  [][(IrqOutstanding /\ op' \in {"step", "step_panic"}) =>
       /\ FlagI(cpu')
       /\ cpu'.sp = (cpu.sp + 253) % 256
       /\ cpu'.pc = Word(cpu, 65534)]_vars

\* C38: step() on an opcode byte without a table entry ends in a fatal error
\* that reports the opcode byte and the address it was fetched from.
C38_UnimplementedReport ==
  /\ (op = "step" /\ pre.core = "CPU") => Mem(pre, pre.pc) \in DOMAIN instruction_table
  /\ op = "step_panic" => ret = <<Mem(pre, pre.pc), pre.pc>>

\* what clock() leaves when the opcode at PC is LSR in the same addressing mode
\* and everything else is as before the ROR
LsrTwin ==
  clock([pre EXCEPT !.bus = bus_write(@, pre.pc, IF Accumulator THEN LSR_A ELSE LSR_ZP)])

\* C39: on the NMOS variant ROR, of A or of memory, stores the same result and
\* leaves the same carry as LSR of the same operand, for every operand and
\* carry-in.
C39_NmosRorIsLsr ==
  ((Fetched(ROR_A) \/ Fetched(ROR_ZP)) /\ pre.variant = "NMOS") =>
    /\ ShiftResult = (IF Accumulator THEN LsrTwin.a ELSE Mem(LsrTwin, OperandM))
    /\ get_flag(cpu, Carry) = get_flag(LsrTwin, Carry)

\* C37: clock() fetches and executes an instruction only when the counter of
\* remaining cycles is 0, and charges it in that call (the counter is left at
\* least at the base cycles of the opcode fetched, minus the cycle of the call);
\* every other clock() decrements the counter by exactly 1 and changes no
\* register, no flag and no memory; the counter never falls below 0.
C37_ClockCountdown ==
  /\ cpu.core = "Cpu" => cpu.cycles >= 0
  /\ (op = "clock" /\ pre.cycles > 0) => cpu = [pre EXCEPT !.cycles = pre.cycles - 1]
  /\ (op = "clock" /\ pre.cycles = 0) =>
       /\ cpu.opcode = Mem(pre, pre.pc)
       /\ cpu.cycles >= get_cycles(cpu.opcode) - 1

\* the last remaining cycle of the first instruction is counted down: the
\* counter goes from 1 to 0 and PC, past the instruction, stays where it was
C37_Witness ==
  /\ op = "clock" /\ pre.cycles = 1 /\ cpu.cycles = 0 /\ ninstr = 1
  /\ cpu.pc # ProgBase /\ cpu.pc = pre.pc

====
